---- MODULE Spec2Model ----
(***************************************************************************)
(* Model of the Leantime MCP proxy bridge (src/src/proxy.ts): the message  *)
(* loop over stdin/stdout, the retry orchestrator, the transport           *)
(* dispatcher with its two response paths, the error normalizer and the    *)
(* response cache.                                                         *)
(***************************************************************************)
EXTENDS Integers, Sequences, FiniteSets, TLC

(***************************************************************************)
(* JavaScript / JSON values.  Every value is a record tagged by k; an      *)
(* object carries its own-property map f (a function from key strings).    *)
(***************************************************************************)
Undef == [k |-> "undefined"]

Null == [k |-> "null"]

Num(n) == [k |-> "number", n |-> n]

Str(s) == [k |-> "string", s |-> s]

Bool(b) == [k |-> "boolean", b |-> b]

Arr(items) == [k |-> "array", items |-> items]

Obj(f) == [k |-> "object", f |-> f]

NoKeys == [key \in {} |-> Undef]

\* Marks an optional key that a generated document leaves out.
Absent == [k |-> "absent"]

\* The object whose keys are those of the record r that are not Absent.
Doc(r) == Obj([key \in {x \in DOMAIN r : r[x] # Absent} |-> r[key]])

\* Property read o[key]: undefined for a missing key and for any property of
\* a primitive or an array that the program reads (id, jsonrpc, method, ...).
Get(o, key) == IF o.k = "object" /\ key \in DOMAIN o.f THEN o.f[key] ELSE Undef

\* JavaScript truthiness (ToBoolean).
Truthy(v) ==
  CASE v.k = "undefined" -> FALSE
    [] v.k = "null" -> FALSE
    [] v.k = "number" -> v.n # 0
    [] v.k = "string" -> v.s # ""
    [] v.k = "boolean" -> v.b
    [] OTHER -> TRUE

\* typeof v === 'object' (null, arrays and objects).
TypeofObject(v) == v.k \in {"null", "array", "object"}

\* a || b
OrElse(a, b) == IF Truthy(a) THEN a ELSE b

\* { ...v }: the own enumerable properties of v.  An array spreads to its
\* index keys, a primitive other than a string to nothing.
Spread(v) ==
  CASE v.k = "object" -> v.f
    [] v.k = "array" -> [key \in {ToString(i - 1) : i \in DOMAIN v.items} |->
                           v.items[CHOOSE i \in DOMAIN v.items : ToString(i - 1) = key]]
    [] v.k = "string" -> [key \in {ToString(i - 1) : i \in 1..Len(v.s)} |->
                           Str(LET i == CHOOSE j \in 1..Len(v.s) : ToString(j - 1) = key
                               IN SubSeq(v.s, i, i))]
    [] OTHER -> NoKeys

\* { ...v, id: id }
WithId(v, id) ==
  LET f == Spread(v)
  IN Obj([key \in DOMAIN f \cup {"id"} |-> IF key = "id" THEN id ELSE f[key]])

Min(a, b) == IF a <= b THEN a ELSE b

\* s.substring(0, n)
Substring0(s, n) == SubSeq(s, 1, Min(Len(s), n))

\* s.startsWith(p)
StartsWith(s, p) == Len(s) >= Len(p) /\ SubSeq(s, 1, Len(p)) = p

(***************************************************************************)
(* A text received from outside (a response body, an input line) together  *)
(* with what JSON.parse makes of it: a value, or a SyntaxError.            *)
(***************************************************************************)
SyntaxError == [k |-> "SyntaxError"]

Text(raw, json) == [raw |-> raw, json |-> json]

JSONParses(text) == text.json # SyntaxError

JSONParse(text) == text.json

(***************************************************************************)
(* JSON.stringify on JSON values.  Keys are written in the order of        *)
(* KeyOrder (the documents of this model are all built in that order).     *)
(***************************************************************************)
KeyOrder ==
  <<"jsonrpc", "id", "method", "params", "result", "error", "code", "message",
    "data", "exception", "file", "line", "trace", "type", "details", "original",
    "tools", "name", "progress", "field">>

RECURSIVE Stringify(_)
RECURSIVE StringifyItems(_, _)
RECURSIVE StringifyKeys(_, _, _)

StringifyItems(items, i) ==
  IF i > Len(items) THEN ""
  ELSE (IF i > 1 THEN "," ELSE "") \o Stringify(items[i]) \o StringifyItems(items, i + 1)

StringifyKeys(f, i, first) ==
  IF i > Len(KeyOrder) THEN ""
  ELSE IF KeyOrder[i] \in DOMAIN f
       THEN (IF first THEN "" ELSE ",") \o "\"" \o KeyOrder[i] \o "\":"
              \o Stringify(f[KeyOrder[i]]) \o StringifyKeys(f, i + 1, FALSE)
       ELSE StringifyKeys(f, i + 1, first)

Stringify(v) ==
  CASE v.k = "null" -> "null"
    [] v.k = "number" -> ToString(v.n)
    [] v.k = "string" -> "\"" \o v.s \o "\""
    [] v.k = "boolean" -> (IF v.b THEN "true" ELSE "false")
    [] v.k = "array" -> "[" \o StringifyItems(v.items, 1) \o "]"
    [] v.k = "object" -> "{" \o StringifyKeys(v.f, 1, TRUE) \o "}"

\* The text a peer sends for the JSON value v.
JsonText(v) == Text(Stringify(v), v)

(***************************************************************************)
(* Error normalizer (plain-JSON response path).                            *)
(***************************************************************************)
phpErrorFields == {"message", "exception", "file", "line", "trace"}

isValidJsonRpcResponse(data) ==
  IF ~Truthy(data) \/ ~TypeofObject(data) THEN FALSE
  ELSE IF Get(data, "jsonrpc") # Str("2.0") THEN FALSE
  ELSE IF Get(data, "result") = Undef /\ Get(data, "error") = Undef THEN FALSE
  ELSE LET hasPhpErrorFields ==
             \E field \in phpErrorFields :
                /\ Get(data, field) # Undef
                /\ Get(data, field).k = "string"
                /\ ~Truthy(Get(data, "result"))
                /\ ~Truthy(Get(data, "error"))
       IN ~hasPhpErrorFields

\* Mutant: the payload's id is dropped.
ErrorEnvelopeNullId(id, code, message, data) ==
  Obj([jsonrpc |-> Str("2.0"),
       id |-> Null,
       error |-> Obj([code |-> Num(code), message |-> message, data |-> data])])

ErrorEnvelope(id, code, message, data) ==
  Obj([jsonrpc |-> Str("2.0"),
       id |-> id,
       error |-> Obj([code |-> Num(code), message |-> message, data |-> data])])

\* The catch block of convertServerErrorToJsonRpc.
ParseErrorEnvelope(responseData) ==
  ErrorEnvelope(Null, -32700, Str("Invalid JSON response from server"),
                Obj([type |-> Str("parse_error"),
                     original |-> Str(Substring0(responseData, 200))]))

\* The try block of convertServerErrorToJsonRpc.  responseData is a string
\* and parsed a JSON value or null at both call sites, so no statement of the
\* try block throws and the catch block above is not entered.
convertServerErrorToJsonRpc(responseData, parsed) ==
  LET requestId == IF Truthy(parsed) /\ Get(parsed, "id") # Undef
                   THEN Get(parsed, "id") ELSE Null
      message == Get(parsed, "message")
      exception == Get(parsed, "exception")
  IN IF Truthy(parsed) /\ TypeofObject(parsed) /\ (Truthy(message) \/ Truthy(exception))
     THEN ErrorEnvelope(requestId, -32603,
                        OrElse(message, Str("Server internal error")),
                        Obj([type |-> Str("server_error"),
                             details |-> OrElse(exception,
                                                OrElse(message, Str("Unknown server error")))]))
     ELSE IF Truthy(parsed) /\ TypeofObject(parsed) /\ parsed.k = "array"
     THEN ErrorEnvelope(requestId, -32600, Str("Server validation error"),
                        Obj([type |-> Str("validation_error"), details |-> parsed]))
     ELSE ErrorEnvelope(requestId, -32603, Str("Invalid server response"),
                        Obj([type |-> Str("malformed_response"),
                             original |-> Str(Substring0(responseData, 200))]))

\* The value handleJSONResponse resolves with on 'end', data being the
\* concatenation of the chunks received.
handleJSONResponse(data) ==
  IF JSONParses(data)
  THEN IF isValidJsonRpcResponse(JSONParse(data))
       THEN JSONParse(data)
       ELSE convertServerErrorToJsonRpc(data.raw, JSONParse(data))
  ELSE convertServerErrorToJsonRpc(data.raw, Null)

(***************************************************************************)
(* Bounds of the model.                                                    *)
(***************************************************************************)
\* Input lines read before the model stops reading.
MaxLines == 2

\* Largest configured retry.maxRetries explored.
MaxRetries == 1

\* Clock advances explored by the message-loop specification.
MaxTicks == 1

\* Largest configured retry.maxRetries explored with a single input line.
MaxRetriesAlone == 3

\* Clock advances explored by the cache specification.
MaxCacheTicks == 2

\* Largest attempt index handed to the backoff calculator.
MaxAttempt == 6

\* Math.random() takes the values k / RandomGrid, k = 0 .. RandomGrid - 1.
RandomGrid == 8

(***************************************************************************)
(* State of one LeantimeMcpProxy instance and of its process.              *)
(***************************************************************************)
VARIABLES
  config,           \* ProxyConfig: retry policy, disableCache, auth
  running,          \* FALSE once process.exit has been called
  now,              \* Date.now()
  ticks,            \* clock advances made so far
  nread,            \* complete non-blank lines handed to handleIncomingMessage
  tasks,            \* the handleIncomingMessage call of each line read
  stdout,           \* lines written with process.stdout.write, in order
  stderr,           \* prefixes of the lines written with console.error
  requestCounter,
  sessionId,
  received,         \* the identifier of the latest response that carried one
  toolCache,
  cacheTimestamps,
  nrm,              \* one plain-JSON response under normalisation
  probe             \* history of the operations of a single-component specification

vars ==
  <<config, running, now, ticks, nread, tasks, stdout, stderr, requestCounter,
    sessionId, received, toolCache, cacheTimestamps, nrm, probe>>

CACHE_TTL == 5 * 60 * 1000

\* Date.now() when the proxy is constructed.
StartTime == 1000

NoMap == [key \in {} |-> Undef]

MapSet(m, key, value) == [x \in DOMAIN m \cup {key} |-> IF x = key THEN value ELSE m[x]]

MapDelete(m, key) == [x \in DOMAIN m \ {key} |-> m[x]]

MapGet(m, key) == IF key \in DOMAIN m THEN m[key] ELSE Undef

(***************************************************************************)
(* Configuration.  The retry policy is kept flat: config.maxRetries is     *)
(* config.retry.maxRetries, and so on.                                     *)
(***************************************************************************)
ProxyConfig(maxRetries, baseDelay, maxDelay, jitter, disableCache, auth) ==
  [maxRetries |-> maxRetries, baseDelay |-> baseDelay, maxDelay |-> maxDelay,
   jitter |-> jitter, disableCache |-> disableCache, auth |-> auth]

\* The policy the constructor installs when none is given, with the retry
\* count and the cache switch left to the caller.
DefaultConfig(maxRetries, disableCache) ==
  ProxyConfig(maxRetries, 1000, 30000, TRUE, disableCache,
              [method |-> "Bearer", token |-> "abc123"])

\* config.auth.method: the four documented methods and one that is none of
\* them (the value comes unchecked from the command line).
AuthMethods == {"Bearer", "ApiKey", "Token", "X-API-Key", "Basic"}

(***************************************************************************)
(* Backoff calculator.                                                     *)
(***************************************************************************)
Max(a, b) == IF a >= b THEN a ELSE b

\* Delays are carried as multiples of 1 / DelayScale ms, which keeps the
\* jitter term an integer.
DelayScale == 4 * RandomGrid

\* Mutant: the cap at maxDelay is left out.
calculateBackoffDelayUncapped(attempt, random) ==
  LET delay == config.baseDelay * 2^attempt
      jittered == IF config.jitter
                  THEN DelayScale * delay + (2 * random - RandomGrid) * delay
                  ELSE DelayScale * delay
  IN Max(jittered, 0)

\* calculateBackoffDelay(attempt), in units of 1 / DelayScale ms, when
\* Math.random() returns random / RandomGrid.  jitterAmount = delay * 0.25
\* and delay += (Math.random() * 2 - 1) * jitterAmount.
calculateBackoffDelay(attempt, random) ==
  LET delay == Min(config.baseDelay * 2^attempt, config.maxDelay)
      jittered == IF config.jitter
                  THEN DelayScale * delay + (2 * random - RandomGrid) * delay
                  ELSE DelayScale * delay
  IN Max(jittered, 0)

(***************************************************************************)
(* Response cache.                                                         *)
(***************************************************************************)
getCacheKey(request) ==
  Get(request, "method").s \o "_" \o Stringify(OrElse(Get(request, "params"), Obj(NoKeys)))

\* Mutant: an entry expires as soon as its age reaches the TTL.
cacheMissAtTTL(timestamp, time) ==
  ~Truthy(timestamp) \/ time - timestamp.n >= CACHE_TTL

\* The test of getCachedResponse: no timestamp, or the entry is too old.
cacheMiss(timestamp, time) ==
  ~Truthy(timestamp) \/ time - timestamp.n > CACHE_TTL

\* Mutant: a miss forgets the value and keeps the timestamp.
getCachedResponseValueOnly(cacheKey) ==
  IF cacheMiss(MapGet(cacheTimestamps, cacheKey), now)
  THEN [value |-> Null,
        toolCache |-> MapDelete(toolCache, cacheKey),
        cacheTimestamps |-> cacheTimestamps]
  ELSE [value |-> MapGet(toolCache, cacheKey),
        toolCache |-> toolCache,
        cacheTimestamps |-> cacheTimestamps]

\* getCachedResponse: the value returned, and the two maps afterwards.
getCachedResponse(cacheKey) ==
  IF cacheMiss(MapGet(cacheTimestamps, cacheKey), now)
  THEN [value |-> Null,
        toolCache |-> MapDelete(toolCache, cacheKey),
        cacheTimestamps |-> MapDelete(cacheTimestamps, cacheKey)]
  ELSE [value |-> MapGet(toolCache, cacheKey),
        toolCache |-> toolCache,
        cacheTimestamps |-> cacheTimestamps]

\* setCachedResponse: the two maps afterwards.
setCachedResponse(cacheKey, response) ==
  [toolCache |-> MapSet(toolCache, cacheKey, response),
   cacheTimestamps |-> MapSet(cacheTimestamps, cacheKey, Num(now))]

\* Mutant: the switch that disables the cache is ignored.
shouldCacheAlways(request) ==
  Get(request, "method") \in {Str("tools/list"), Str("resources/list"), Str("prompts/list")}

shouldCache(request) ==
  IF config.disableCache THEN FALSE
  ELSE Get(request, "method") \in {Str("tools/list"), Str("resources/list"), Str("prompts/list")}

(***************************************************************************)
(* The environment: input lines, response bodies, events of a stream.      *)
(***************************************************************************)
Request(id, method) ==
  Doc([jsonrpc |-> Str("2.0"), id |-> id, method |-> method])

InputLines ==
  { Text("not json", SyntaxError),
    JsonText(Null),
    JsonText(Request(Absent, Str("notifications/initialized"))),
    JsonText(Request(Num(7), Str("notifications/cancelled"))),
    JsonText(Request(Num(1), Str("initialize"))),
    JsonText(Request(Num(1), Str("tools/list"))),
    JsonText(Request(Num(2), Str("tools/list"))),
    JsonText(Request(Num(0), Str("tools/call"))),
    JsonText(Request(Absent, Str("tools/call"))),
    JsonText(Request(Str("a"), Num(5))) }

ToolsResult == Obj([tools |-> Arr(<<>>)])

ServerError == Obj([code |-> Num(-32602), message |-> Str("Invalid params")])

\* Bodies of plain-JSON responses.
PlainBodies ==
  { JsonText(Doc([jsonrpc |-> Str("2.0"), id |-> Num(99), result |-> ToolsResult])),
    JsonText(Doc([jsonrpc |-> Str("2.0"), id |-> Num(99), result |-> ToolsResult,
                  error |-> ServerError])),
    Text("not json", SyntaxError) }

\* Payloads of JSON-bearing events of an event-stream response.
SseValues ==
  { Doc([jsonrpc |-> Str("2.0"), id |-> Num(99), result |-> ToolsResult]),
    Doc([progress |-> Num(50)]) }

\* event.data of the block left in the buffer when the stream ends.
SseTrailing ==
  { Text("", SyntaxError),
    Text("{\"jsonrpc\":", SyntaxError),
    JsonText(Doc([jsonrpc |-> Str("2.0"), id |-> Num(99), result |-> ToolsResult])) }

\* Values of the mcp-session-id response header (undefined: no such header).
SessionHeaders == {Undef, Str(""), Str("sess-A"), Str("sess-B")}

\* error.message of the failures a request or response stream reports.
TransportErrors == {"socket hang up"}

(***************************************************************************)
(* Logging.  io is the pair of process streams: out (stdout) and err       *)
(* (stderr).  Of a line written to stderr, err keeps the prefix alone: the *)
(* proxy never reads its log back, and the message texts (given here       *)
(* without their variable parts) would only multiply the states.           *)
(***************************************************************************)
\* Mutant: log lines go to the output stream.
logToOutput(io, message) ==
  [io EXCEPT !.out = Append(@, [task |-> 0, via |-> "log",
                                value |-> Str("[LeantimeMCP] " \o message)])]

\* log(message): console.error.
log(io, message) == [io EXCEPT !.err = @ \cup {"[LeantimeMCP]"}]

\* logError(message, error): console.error.
logError(io, message) == [io EXCEPT !.err = @ \cup {"[LeantimeMCP ERROR]"}]

\* The two streams as they are.
Console == [out |-> stdout, err |-> stderr]

\* The two streams become io.
Emit(io) == stdout' = io.out /\ stderr' = io.err

\* What initialize() and startMessageLoop() log before the first line is read.
startupLog ==
  log(log(log(log(log(log([out |-> <<>>, err |-> {}],
    "Initializing Leantime MCP Proxy..."), "Server: "), "Auth Method: "),
    "SSL verification: "), "Protocol version: "), "Ready to handle MCP requests...")

(***************************************************************************)
(* Session tracker and transport dispatcher.                               *)
(***************************************************************************)
\* Mutant: a response without the header clears the identifier.
extractSessionIdClears(header) ==
  IF Truthy(header) /\ header.k = "string" THEN header ELSE Undef

\* Mutant: the first identifier captured is kept for good.
extractSessionIdOnce(header) ==
  IF Truthy(header) /\ header.k = "string"
  THEN IF ~Truthy(sessionId) THEN header ELSE sessionId
  ELSE sessionId

\* this.sessionId after extractSessionId(headers), header being the value
\* found under one of the four header names.
extractSessionId(header) ==
  IF Truthy(header) /\ header.k = "string"
  THEN IF ~Truthy(sessionId) THEN header
       ELSE IF sessionId # header THEN header ELSE sessionId
  ELSE sessionId

\* What extractSessionId logs.
extractSessionIdLog(io, header) ==
  IF Truthy(header) /\ header.k = "string"
  THEN IF ~Truthy(sessionId) THEN log(io, "Session ID captured")
       ELSE IF sessionId # header THEN log(io, "Session ID changed") ELSE io
  ELSE io

\* Mutant: the X-API-Key method sets the Authorization header as well.
addAuthHeaderBoth(headers) ==
  CASE config.auth.method = "X-API-Key" ->
         MapSet(MapSet(headers, "X-API-Key", config.auth.token),
                "Authorization", "Bearer " \o config.auth.token)
    [] config.auth.method = "ApiKey" ->
         MapSet(headers, "Authorization", "ApiKey " \o config.auth.token)
    [] config.auth.method = "Token" ->
         MapSet(headers, "Authorization", "Token " \o config.auth.token)
    [] OTHER ->
         MapSet(headers, "Authorization", "Bearer " \o config.auth.token)

addAuthHeader(headers) ==
  CASE config.auth.method = "X-API-Key" ->
         MapSet(headers, "X-API-Key", config.auth.token)
    [] config.auth.method = "ApiKey" ->
         MapSet(headers, "Authorization", "ApiKey " \o config.auth.token)
    [] config.auth.method = "Token" ->
         MapSet(headers, "Authorization", "Token " \o config.auth.token)
    [] OTHER ->
         MapSet(headers, "Authorization", "Bearer " \o config.auth.token)

\* The POST that sendToServer(request) puts on the wire: its body and its
\* headers (the texts of this model are ASCII, so byte length is length).
sendToServer(request) ==
  LET postData == Stringify(request)
      headers == [key \in {"Content-Type", "Accept", "Content-Length"} |->
                    CASE key = "Content-Type" -> "application/json"
                      [] key = "Accept" -> "application/json, text/event-stream"
                      [] key = "Content-Length" -> ToString(Len(postData))]
      withAuth == addAuthHeader(headers)
  IN [k |-> "POST",
      body |-> request,
      headers |-> IF Truthy(sessionId)
                  THEN MapSet(withAuth, "Mcp-Session-Id", sessionId.s)
                  ELSE withAuth]

(***************************************************************************)
(* Message loop: one task per line handed to handleIncomingMessage.        *)
(***************************************************************************)
Tasks == 1..MaxLines

\* line: the input line (for an entry point, its argument as text);
\* request: the POST of the task that is on the wire, if any.
NoTask ==
  [pc |-> "unread", line |-> Text("", SyntaxError), requestId |-> Null,
   phase |-> "main", attempt |-> 0, net |-> "none", cacheKey |-> Undef,
   sent |-> 0, outcome |-> "none", readAt |-> 0, request |-> Undef,
   result |-> Undef]

\* Mutant: the notification sent to the server carries an id.
initNotificationWithId ==
  Obj([jsonrpc |-> Str("2.0"), id |-> Num(1), method |-> Str("notifications/initialized"),
       params |-> Obj(NoKeys)])

initNotification ==
  Obj([jsonrpc |-> Str("2.0"), method |-> Str("notifications/initialized"),
       params |-> Obj(NoKeys)])

\* Mutant: the catch-all envelope is given the parse-error code.
errorResponseParseError(requestId, message) ==
  Obj([jsonrpc |-> Str("2.0"),
       id |-> requestId,
       error |-> Obj([code |-> Num(-32700), message |-> Str("Internal error"),
                      data |-> Str(message)])])

\* The catch block of handleIncomingMessage builds this envelope.
errorResponse(requestId, message) ==
  Obj([jsonrpc |-> Str("2.0"),
       id |-> requestId,
       error |-> Obj([code |-> Num(-32603), message |-> Str("Internal error"),
                      data |-> Str(message)])])

\* Mutant: the write is left out.
WrittenNothing(t, via, value) == stdout

\* process.stdout.write(JSON.stringify(value) + '\n') by task t.  via tells
\* which write statement ran: "response" (474, 527, after a forward),
\* "cache" (527, after a cache hit) or "catch" (544).
Written(t, via, value) == Append(stdout, [task |-> t, via |-> via, value |-> value])

\* The request a call of sendToServerWithRetry is about: the parsed line (the
\* argument, for an entry point), or the notification that follows initialize.
RequestOf(tk, phase) ==
  IF phase = "notify" THEN initNotification ELSE JSONParse(tk.line)

\* sendToServerWithRetry(request) starts: attempt 0 is dispatched.
StartSend(tk, phase, cacheKey) ==
  [tk EXCEPT !.pc = "inflight", !.phase = phase, !.attempt = 0, !.net = "request",
             !.cacheKey = cacheKey, !.sent = 1, !.outcome = "none",
             !.request = sendToServer(RequestOf(tk, phase))]

\* The call of task t returns or throws; no request of its is on the wire.
Finished(tk, outcome) ==
  [tk EXCEPT !.pc = "done", !.net = "none", !.outcome = outcome, !.request = Undef]

\* Mutant: the server's envelope is passed on with the id it came with.
restoreIdKept(response, requestId) == response

\* response = { ...response, id: requestId } when requestId !== null.
restoreId(response, requestId) ==
  IF requestId # Null THEN WithId(response, requestId) ELSE response

\* The catch block of handleIncomingMessage, entered with error `message`.
CatchAll(t, requestId, message, io) ==
  logError([io EXCEPT !.out = Written(t, "catch", errorResponse(requestId, message))],
           "Failed to handle message:")

\* Mutant: the loop awaits the handling of a line before it hands over the
\* next one.
LineAvailableAwaited ==
  /\ running
  /\ nread < MaxLines
  /\ \A t \in Tasks : tasks[t].pc \notin {"inflight", "sleeping"}

\* The 'readable' handler of startMessageLoop has a complete non-blank line
\* to hand to handleIncomingMessage; it does not await the call.
LineAvailable ==
  /\ running
  /\ nread < MaxLines

\* Mutant: only notifications/initialized is consumed.
isNotificationInitialized(method) == method = Str("notifications/initialized")

\* parsed.method && parsed.method.startsWith('notifications/'), for a method
\* that has startsWith.
isNotification(method) == Truthy(method) /\ StartsWith(method.s, "notifications/")

\* What handleIncomingMessage logs for a notification, after "Handling
\* request".
notificationLog(method) ==
  IF method = Str("notifications/initialized")
  THEN <<"Notification", "MCP handshake completed - ready for requests">>
  ELSE <<"Notification">>

RECURSIVE logAll(_, _, _)

\* log(messages[i]), log(messages[i + 1]), ...
logAll(io, messages, i) ==
  IF i > Len(messages) THEN io ELSE logAll(log(io, messages[i]), messages, i + 1)

\* The part of handleIncomingMessage that runs when the line is read, up to
\* its first await.
ReadLine(line) ==
  /\ LineAvailable
  /\ nread' = nread + 1
  /\ UNCHANGED <<config, running, now, ticks, sessionId, received, nrm, probe>>
  /\ LET t == nread + 1
         tk == [NoTask EXCEPT !.line = line, !.readAt = now]
         parsed == JSONParse(line)
         requestId == IF Get(parsed, "id") # Undef THEN Get(parsed, "id") ELSE Null
         rq == [tk EXCEPT !.requestId = requestId]
         method == Get(parsed, "method")
         handling == log(Console, "Handling request")
     IN IF ~JSONParses(line)
        THEN \* JSON.parse throws
             /\ tasks' = [tasks EXCEPT ![t] = Finished(tk, "none")]
             /\ Emit(CatchAll(t, Null, "Unexpected token", Console))
             /\ UNCHANGED <<requestCounter, toolCache, cacheTimestamps>>
        ELSE IF parsed = Null
        THEN \* parsed.id throws a TypeError
             /\ tasks' = [tasks EXCEPT ![t] = Finished(tk, "none")]
             /\ Emit(CatchAll(t, Null, "Cannot read properties of null", Console))
             /\ UNCHANGED <<requestCounter, toolCache, cacheTimestamps>>
        ELSE /\ requestCounter' = requestCounter + 1
             /\ IF Truthy(method) /\ method.k # "string"
                THEN \* parsed.method.startsWith is not a function
                     /\ tasks' = [tasks EXCEPT ![t] = Finished(rq, "none")]
                     /\ Emit(CatchAll(t, requestId, "startsWith is not a function", handling))
                     /\ UNCHANGED <<toolCache, cacheTimestamps>>
                ELSE IF isNotification(method)
                THEN /\ tasks' = [tasks EXCEPT ![t] = Finished(rq, "none")]
                     /\ Emit(logAll(handling, notificationLog(method), 1))
                     /\ UNCHANGED <<toolCache, cacheTimestamps>>
                ELSE IF method = Str("initialize")
                THEN /\ tasks' = [tasks EXCEPT ![t] = StartSend(rq, "main", Undef)]
                     /\ Emit(handling)
                     /\ UNCHANGED <<toolCache, cacheTimestamps>>
                ELSE IF shouldCache(parsed)
                THEN LET cacheKey == getCacheKey(parsed)
                         got == getCachedResponse(cacheKey)
                     IN /\ toolCache' = got.toolCache
                        /\ cacheTimestamps' = got.cacheTimestamps
                        /\ IF Truthy(got.value)
                           THEN /\ tasks' = [tasks EXCEPT ![t] = Finished(rq, "none")]
                                /\ Emit(log([log(handling, "Cache hit") EXCEPT !.out =
                                               Written(t, "cache",
                                                 IF requestId # Null
                                                 THEN WithId(got.value, requestId)
                                                 ELSE Obj(Spread(got.value)))],
                                            "Request completed successfully"))
                           ELSE /\ tasks' = [tasks EXCEPT ![t] =
                                               StartSend(rq, "main", Str(cacheKey))]
                                /\ Emit(log(handling, "Cache miss, fetching..."))
                ELSE /\ tasks' = [tasks EXCEPT ![t] = StartSend(rq, "main", Undef)]
                     /\ Emit(handling)
                     /\ UNCHANGED <<toolCache, cacheTimestamps>>

\* The phases of a call made through one of the one-request entry points.
EntryPoints == {"proxyRequest", "handleHttpRequest"}

\* The envelope the catch block of proxyRequest / handleHttpRequest returns.
entryErrorResponse(request, message) ==
  errorResponse(OrElse(Get(request, "id"), Null), message)

\* sendToServerWithRetry returned value to task t: the rest of the caller,
\* up to its next await.
Resolve(t, value) ==
  LET tk == tasks[t]
      response == restoreId(value, tk.requestId)
      completed == log([Console EXCEPT !.out = Written(t, "response", response)],
                       "Request completed successfully")
  IN IF tk.phase \in EntryPoints
     THEN /\ tasks' = [tasks EXCEPT ![t] = [Finished(tk, "returned") EXCEPT !.result = value]]
          /\ UNCHANGED <<stdout, stderr, toolCache, cacheTimestamps>>
     ELSE IF tk.phase = "notify"
     THEN /\ tasks' = [tasks EXCEPT ![t] = Finished(tk, "returned")]
          /\ Emit(log(Console, "Server session initialized successfully"))
          /\ UNCHANGED <<toolCache, cacheTimestamps>>
     ELSE IF Get(JSONParse(tk.line), "method") = Str("initialize")
     THEN /\ Emit(log(completed, "Sending notifications/initialized to server..."))
          /\ tasks' = [tasks EXCEPT ![t] = StartSend(tk, "notify", Undef)]
          /\ UNCHANGED <<toolCache, cacheTimestamps>>
     ELSE IF tk.cacheKey # Undef
     THEN /\ toolCache' = setCachedResponse(tk.cacheKey.s, value).toolCache
          /\ cacheTimestamps' = setCachedResponse(tk.cacheKey.s, value).cacheTimestamps
          /\ Emit(completed)
          /\ tasks' = [tasks EXCEPT ![t] = Finished(tk, "returned")]
     ELSE /\ Emit(completed)
          /\ tasks' = [tasks EXCEPT ![t] = Finished(tk, "returned")]
          /\ UNCHANGED <<toolCache, cacheTimestamps>>

\* Mutant: one retry too many.
retriesExhaustedLate(attempt) == attempt > config.maxRetries

\* Mutant: gives up one attempt early.
retriesExhaustedEarly(attempt) == attempt + 1 >= config.maxRetries

\* The catch block of sendToServerWithRetry: does the call give up?
retriesExhausted(attempt) == attempt >= config.maxRetries

\* Mutant: the failure of the notification is reported to the client.
RejectNotifyReported(t, message, io) ==
  LET tk == tasks[t]
  IN /\ UNCHANGED <<toolCache, cacheTimestamps>>
     /\ IF retriesExhausted(tk.attempt)
        THEN IF tk.phase \in EntryPoints
             THEN /\ tasks' = [tasks EXCEPT ![t] =
                                 [Finished(tk, "raised") EXCEPT !.result =
                                    entryErrorResponse(JSONParse(tk.line), message)]]
                  /\ Emit(logError(io, IF tk.phase = "proxyRequest"
                                       THEN "Proxy request failed:"
                                       ELSE "HTTP request failed:"))
             ELSE IF tk.phase = "notify"
             THEN /\ tasks' = [tasks EXCEPT ![t] = Finished(tk, "raised")]
                  /\ Emit(CatchAll(t, tk.requestId, message, io))
             ELSE /\ tasks' = [tasks EXCEPT ![t] = Finished(tk, "raised")]
                  /\ Emit(CatchAll(t, tk.requestId, message, io))
        ELSE /\ tasks' = [tasks EXCEPT ![t].pc = "sleeping", ![t].net = "none",
                                       ![t].request = Undef]
             /\ Emit(log(io, "Request failed, retrying"))

\* Mutant: a request that fails for good stores its error envelope.
RejectStoresFailure(t, message, io) ==
  LET tk == tasks[t]
      stores == retriesExhausted(tk.attempt) /\ tk.phase = "main" /\ tk.cacheKey # Undef
      failure == errorResponse(tk.requestId, message)
  IN /\ toolCache' = IF stores THEN setCachedResponse(tk.cacheKey.s, failure).toolCache
                      ELSE toolCache
     /\ cacheTimestamps' = IF stores
                            THEN setCachedResponse(tk.cacheKey.s, failure).cacheTimestamps
                            ELSE cacheTimestamps
     /\ IF retriesExhausted(tk.attempt)
        THEN IF tk.phase \in EntryPoints
             THEN /\ tasks' = [tasks EXCEPT ![t] =
                                 [Finished(tk, "raised") EXCEPT !.result =
                                    entryErrorResponse(JSONParse(tk.line), message)]]
                  /\ Emit(logError(io, IF tk.phase = "proxyRequest"
                                       THEN "Proxy request failed:"
                                       ELSE "HTTP request failed:"))
             ELSE IF tk.phase = "notify"
             THEN /\ tasks' = [tasks EXCEPT ![t] = Finished(tk, "raised")]
                  /\ Emit(logError(io, "Failed to initialize server session:"))
             ELSE /\ tasks' = [tasks EXCEPT ![t] = Finished(tk, "raised")]
                  /\ Emit(CatchAll(t, tk.requestId, message, io))
        ELSE /\ tasks' = [tasks EXCEPT ![t].pc = "sleeping", ![t].net = "none",
                                       ![t].request = Undef]
             /\ Emit(log(io, "Request failed, retrying"))

\* sendToServer rejected with error `message` for task t; io is the console
\* after what the event handler itself logged.  The duration of the sleep
\* is the backoff calculator's; the loop does not depend on it.
Reject(t, message, io) ==
  LET tk == tasks[t]
  IN /\ UNCHANGED <<toolCache, cacheTimestamps>>
     /\ IF retriesExhausted(tk.attempt)
        THEN IF tk.phase \in EntryPoints
             THEN /\ tasks' = [tasks EXCEPT ![t] =
                                 [Finished(tk, "raised") EXCEPT !.result =
                                    entryErrorResponse(JSONParse(tk.line), message)]]
                  /\ Emit(logError(io, IF tk.phase = "proxyRequest"
                                       THEN "Proxy request failed:"
                                       ELSE "HTTP request failed:"))
             ELSE IF tk.phase = "notify"
             THEN /\ tasks' = [tasks EXCEPT ![t] = Finished(tk, "raised")]
                  /\ Emit(logError(io, "Failed to initialize server session:"))
             ELSE /\ tasks' = [tasks EXCEPT ![t] = Finished(tk, "raised")]
                  /\ Emit(CatchAll(t, tk.requestId, message, io))
        ELSE /\ tasks' = [tasks EXCEPT ![t].pc = "sleeping", ![t].net = "none",
                                       ![t].request = Undef]
             /\ Emit(log(io, "Request failed, retrying"))

InFlight(t, nets) == running /\ tasks[t].pc = "inflight" /\ tasks[t].net \in nets

loopFrame == UNCHANGED <<config, running, now, ticks, nread, requestCounter, nrm, probe>>

\* The response callback of sendToServer: the status line and headers have
\* arrived.  The session id is extracted, then the body is consumed as an
\* event stream or buffered as plain JSON.
ResponseHeaders(t, header, isSSE) ==
  /\ InFlight(t, {"request"})
  /\ sessionId' = extractSessionId(header)
  /\ received' = IF header.k = "string" /\ header.s # "" THEN header ELSE received
  /\ Emit(extractSessionIdLog(Console, header))
  /\ tasks' = [tasks EXCEPT ![t].net = IF isSSE THEN "sse" ELSE "json"]
  /\ UNCHANGED <<toolCache, cacheTimestamps>>
  /\ loopFrame

\* 'end' of a plain-JSON response whose chunks add up to body.
JsonEnd(t, body) ==
  /\ InFlight(t, {"json"})
  /\ Resolve(t, handleJSONResponse(body))
  /\ UNCHANGED <<sessionId, received>>
  /\ loopFrame

\* 'data' of an event stream: the first block of the chunk whose data parses
\* as JSON carries value.
SseEvent(t, value) ==
  /\ InFlight(t, {"sse"})
  /\ Resolve(t, value)
  /\ UNCHANGED <<sessionId, received>>
  /\ loopFrame

\* 'data' of an event stream whose blocks carry no data that parses as
\* JSON: the error is logged and the call stays pending.
SseBadEvent(t) ==
  /\ InFlight(t, {"sse"})
  /\ Emit(logError(Console, "Invalid JSON in SSE"))
  /\ UNCHANGED <<tasks, toolCache, cacheTimestamps, sessionId, received>>
  /\ loopFrame

\* Mutant: a stream that ends with nothing in the buffer fails the call.
SseEndRejects(t, data) ==
  /\ InFlight(t, {"sse"})
  /\ IF data.raw = ""
     THEN Reject(t, "Stream ended without data", Console)
     ELSE IF JSONParses(data)
     THEN Resolve(t, JSONParse(data))
     ELSE Reject(t, "Invalid JSON in final SSE", Console)
  /\ UNCHANGED <<sessionId, received>>
  /\ loopFrame

\* 'end' of an event stream that has not resolved the call; data is the
\* event.data of the block left in the buffer ("" when there is none).
SseEnd(t, data) ==
  /\ InFlight(t, {"sse"})
  /\ IF data.raw = ""
     THEN /\ tasks' = [tasks EXCEPT ![t].net = "ended"]
          /\ UNCHANGED <<stdout, stderr, toolCache, cacheTimestamps>>
     ELSE IF JSONParses(data)
     THEN Resolve(t, JSONParse(data))
     ELSE Reject(t, "Invalid JSON in final SSE", Console)
  /\ UNCHANGED <<sessionId, received>>
  /\ loopFrame

\* 'error' on the request (logged) or, once the response has begun, on the
\* response stream (not logged).
TransportError(t, message) ==
  /\ InFlight(t, {"request", "json", "sse"})
  /\ Reject(t, message, IF tasks[t].net = "request"
                        THEN logError(Console, "Request error")
                        ELSE Console)
  /\ UNCHANGED <<sessionId, received>>
  /\ loopFrame

\* 'timeout' on the request.  Whether the runtime still reports a timeout
\* for an exchange whose response stream has ended is left open: the event
\* is possible in net = "ended", and nothing promises it.
RequestTimeout(t) ==
  /\ InFlight(t, {"request", "json", "sse", "ended"})
  /\ Reject(t, "Request timeout", logError(Console, "Request timeout"))
  /\ UNCHANGED <<sessionId, received>>
  /\ loopFrame

\* The sleep(delay) of sendToServerWithRetry is over: the next attempt is
\* dispatched.
SleepElapsed(t) ==
  /\ running
  /\ tasks[t].pc = "sleeping"
  /\ tasks' = [tasks EXCEPT ![t].pc = "inflight", ![t].net = "request",
                            ![t].attempt = @ + 1, ![t].sent = @ + 1,
                            ![t].request =
                               sendToServer(RequestOf(tasks[t], tasks[t].phase))]
  /\ UNCHANGED <<stdout, stderr, toolCache, cacheTimestamps, sessionId, received>>
  /\ loopFrame

\* Mutant: the end of the input is logged and the calls in flight are left
\* to finish.
StdinEndDrains ==
  /\ running
  /\ running' = FALSE
  /\ Emit(log(log(Console, "Input stream ended - client disconnected"),
              "Cleaning up proxy..."))
  /\ UNCHANGED <<config, now, ticks, nread, tasks, requestCounter,
                 sessionId, received, toolCache, cacheTimestamps, nrm, probe>>

\* 'end' of stdin: cleanup() calls process.exit(0).  The calls in flight and
\* the pending timers die with the process.
StdinEnd ==
  /\ running
  /\ running' = FALSE
  /\ tasks' = [t \in Tasks |->
                 IF tasks[t].pc \in {"inflight", "sleeping"}
                 THEN [tasks[t] EXCEPT !.pc = "killed", !.net = "none", !.request = Undef]
                 ELSE tasks[t]]
  /\ Emit(log(log(Console, "Input stream ended - client disconnected"),
              "Cleaning up proxy..."))
  /\ UNCHANGED <<config, now, ticks, nread, requestCounter,
                 sessionId, received, toolCache, cacheTimestamps, nrm, probe>>

\* Time passes.  Only the age of a cache entry depends on the clock, and it
\* is looked at when a line is read, so the clock is advanced only while an
\* entry is held and a line is still to be read.
Tick(d) ==
  /\ running
  /\ ticks < MaxTicks
  /\ nread < MaxLines
  /\ DOMAIN cacheTimestamps # {}
  /\ ticks' = ticks + 1
  /\ now' = now + d
  /\ UNCHANGED <<config, running, nread, tasks, stdout, stderr, requestCounter,
                 sessionId, received, toolCache, cacheTimestamps, nrm, probe>>

TickSteps == {CACHE_TTL, CACHE_TTL + 1}

NoNrm == [st |-> "none"]

NoProbe == [st |-> "none"]

\* Everything but the configuration and the two streams, as the constructor
\* leaves it.
InitState ==
  /\ running = TRUE
  /\ now = StartTime
  /\ ticks = 0
  /\ nread = 0
  /\ tasks = [t \in Tasks |-> NoTask]
  /\ requestCounter = 0
  /\ sessionId = Undef
  /\ received = Undef
  /\ toolCache = NoMap
  /\ cacheTimestamps = NoMap

Init ==
  /\ config \in {DefaultConfig(m, c) : m \in 0..MaxRetries, c \in BOOLEAN}
  /\ InitState
  /\ stdout = startupLog.out
  /\ stderr = startupLog.err
  /\ nrm = NoNrm
  /\ probe = NoProbe

\* What the network and its timers do to the call of task t.
Transport(t) ==
  \/ \E header \in SessionHeaders, isSSE \in BOOLEAN : ResponseHeaders(t, header, isSSE)
  \/ \E body \in PlainBodies : JsonEnd(t, body)
  \/ \E value \in SseValues : SseEvent(t, value)
  \/ SseBadEvent(t)
  \/ \E data \in SseTrailing : SseEnd(t, data)
  \/ \E message \in TransportErrors : TransportError(t, message)
  \/ RequestTimeout(t)

Next ==
  \/ \E line \in InputLines : ReadLine(line)
  \/ \E t \in Tasks : Transport(t)
  \/ \E t \in Tasks : SleepElapsed(t)
  \/ \E d \in TickSteps : Tick(d)
  \/ StdinEnd

Spec == Init /\ [][Next]_vars

(***************************************************************************)
(* The same proxy with a single input line, a wider range of retry         *)
(* policies and every auth method.                                         *)
(***************************************************************************)
InitAlone ==
  /\ config \in {ProxyConfig(m, 1000, 30000, TRUE, c, [method |-> a, token |-> "abc123"]) :
                   m \in 0..MaxRetriesAlone, c \in BOOLEAN, a \in AuthMethods}
  /\ InitState
  /\ stdout = startupLog.out
  /\ stderr = startupLog.err
  /\ nrm = NoNrm
  /\ probe = NoProbe

ReadFirstLine(line) == nread = 0 /\ ReadLine(line)

NextAlone ==
  \/ \E line \in InputLines : ReadFirstLine(line)
  \/ \E t \in Tasks : Transport(t)
  \/ \E t \in Tasks : SleepElapsed(t)
  \/ \E d \in TickSteps : Tick(d)
  \/ StdinEnd

RetrySpec == InitAlone /\ [][NextAlone]_vars

\* The input stream stays open.
NextOpen ==
  \/ \E line \in InputLines : ReadFirstLine(line)
  \/ \E t \in Tasks : Transport(t)
  \/ \E t \in Tasks : SleepElapsed(t)
  \/ \E d \in TickSteps : Tick(d)

\* An exchange that is under way comes to some event (a response, an error,
\* a timeout), and a timer that was set fires.
LiveTransport(t) == tasks[t].net \in {"request", "json", "sse"} /\ Transport(t)

Fairness ==
  \A t \in Tasks : WF_vars(LiveTransport(t)) /\ WF_vars(SleepElapsed(t))

LiveSpec == InitAlone /\ [][NextOpen]_vars /\ Fairness

(***************************************************************************)
(* The one-request entry points: one call of proxyRequest or of            *)
(* handleHttpRequest on a proxy that runs no message loop.                 *)
(***************************************************************************)
\* Requests with every kind of id: none, null, zero, other numbers, strings.
EntryRequests ==
  { Request(id, Str("tools/call")) :
      id \in {Absent, Null, Num(0), Num(1), Num(-1), Str(""), Str("a")} }

\* The synchronous part of the entry point: sendToServerWithRetry(request)
\* dispatches attempt 0.
CallEntry(entry, request) ==
  /\ running
  /\ nread = 0
  /\ nread' = 1
  /\ tasks' = [tasks EXCEPT ![1] =
                 [NoTask EXCEPT !.line = JsonText(request), !.pc = "inflight",
                                !.phase = entry, !.net = "request",
                                !.sent = 1, !.readAt = now,
                                !.request = sendToServer(request)]]
  /\ UNCHANGED <<config, running, now, ticks, stdout, stderr, requestCounter,
                 sessionId, received, toolCache, cacheTimestamps, nrm, probe>>

InitProxy ==
  /\ config \in {DefaultConfig(m, c) : m \in 0..MaxRetriesAlone, c \in BOOLEAN}
  /\ InitState
  /\ stdout = <<>>
  /\ stderr = {}
  /\ nrm = NoNrm
  /\ probe = NoProbe

NextProxy ==
  \/ \E entry \in EntryPoints, request \in EntryRequests : CallEntry(entry, request)
  \/ \E t \in Tasks : Transport(t)
  \/ \E t \in Tasks : SleepElapsed(t)

ProxySpec == InitProxy /\ [][NextProxy]_vars

(***************************************************************************)
(* Properties of the message loop.                                         *)
(***************************************************************************)
\* The positions of the lines task t wrote.
LinesBy(t) == {i \in DOMAIN stdout : stdout[i].task = t}

\* The id member of an input line (undefined when the line has none or is
\* not a JSON object).
LineId(line) == IF JSONParses(line) THEN Get(JSONParse(line), "id") ELSE Undef

LineMethod(line) == IF JSONParses(line) THEN Get(JSONParse(line), "method") ELSE Undef

\* The line is an envelope whose method lies in the notifications/ namespace.
InNotificationNamespace(line) ==
  LineMethod(line).k = "string" /\ StartsWith(LineMethod(line).s, "notifications/")

\* v is a response envelope: version "2.0" and exactly one of result, error.
IsResponseEnvelope(v) ==
  /\ v.k = "object"
  /\ Get(v, "jsonrpc") = Str("2.0")
  /\ (Get(v, "result") # Undef) # (Get(v, "error") # Undef)

\* C1: every line written to the output stream is a response envelope with
\* version "2.0" and exactly one of result / error, whatever the server sent
\* and on both response paths.
C1_EveryLineIsEnvelope ==
  \A i \in DOMAIN stdout : IsResponseEnvelope(stdout[i].value)

\* C2: a line written for a request whose id is non-null carries exactly
\* that id, on every path (cache hit, cache miss, direct forward,
\* initialize, after retries, catch-all error envelope).
C2_IdFidelity ==
  \A i \in DOMAIN stdout :
     LET id == LineId(tasks[stdout[i].task].line)
     IN id \notin {Undef, Null} =>
          /\ stdout[i].value.k = "object"
          /\ Get(stdout[i].value, "id") = id

\* A request with id 2 was answered from the cache entry that a request with
\* id 1 had filled from a response carrying the server's own id.
C2_Witness ==
  /\ \E i \in DOMAIN stdout :
        stdout[i].via = "cache" /\ Get(stdout[i].value, "id") = Num(2)
  /\ \E i \in DOMAIN stdout :
        stdout[i].via = "response" /\ Get(stdout[i].value, "id") = Num(1)

\* C3: a line that the message loop does not consume as a notification
\* (its method is not in the notifications/ namespace; unparseable lines
\* included) has exactly one output line once its handling has completed,
\* and never more than one at any time.
C3_ExactlyOneLine ==
  \A t \in Tasks :
     /\ Cardinality(LinesBy(t)) <= 1
     /\ (tasks[t].pc = "done" /\ ~InNotificationNamespace(tasks[t].line))
          => Cardinality(LinesBy(t)) = 1

\* An initialize request whose trailing notification failed after the
\* response was written, and a request that ended in the catch-all envelope:
\* both handled to completion.
C3_Witness ==
  /\ \E t \in Tasks :
        /\ tasks[t].pc = "done" /\ tasks[t].phase = "notify"
        /\ tasks[t].outcome = "raised"
  /\ \E t \in Tasks :
        /\ tasks[t].pc = "done" /\ tasks[t].phase = "main"
        /\ tasks[t].outcome = "raised"

\* The line is a request: an envelope with a non-null id whose method is
\* not in the notifications/ namespace.
IsRequestLine(line) ==
  LineId(line) \notin {Undef, Null} /\ ~InNotificationNamespace(line)

\* C4: every request line that was read eventually has a line written for
\* it, under fair transport events and timers.
C4_EveryRequestAnswered ==
  \A t \in Tasks :
     (tasks[t].pc # "unread" /\ IsRequestLine(tasks[t].line)) ~> (LinesBy(t) # {})

\* C5: nothing is written for an input envelope that has no id (absent or
\* null), whatever its method is.
C5_NoLineWithoutId ==
  \A i \in DOMAIN stdout :
     LET line == tasks[stdout[i].task].line
     IN (JSONParses(line) /\ JSONParse(line).k = "object")
          => LineId(line) \notin {Undef, Null}

\* C6: sendToServerWithRetry never dispatches more than maxRetries + 1
\* attempts for one request, re-raises only after exactly maxRetries + 1
\* attempts, and waits for a retry only while retries remain.
C6_RetryExhaustion ==
  \A t \in Tasks :
     /\ tasks[t].sent <= config.maxRetries + 1
     /\ tasks[t].outcome = "raised" => tasks[t].sent = config.maxRetries + 1
     /\ tasks[t].pc = "sleeping" => tasks[t].sent <= config.maxRetries

\* With maxRetries = 3 the failure was surfaced after the fourth attempt.
C6_Witness ==
  \E t \in Tasks :
     config.maxRetries = 3 /\ tasks[t].outcome = "raised" /\ tasks[t].sent = 4

\* C7: a transport failure reaches the client only after the retries are
\* exhausted, as one envelope with code -32603 and the id of the request
\* (null if none); while retries remain nothing is written for the request.
C7_FailureAfterRetries ==
  \A t \in Tasks :
     /\ (tasks[t].phase = "main" /\ tasks[t].pc \in {"inflight", "sleeping"})
          => LinesBy(t) = {}
     /\ (tasks[t].phase = "main" /\ tasks[t].outcome = "raised")
          => /\ tasks[t].sent = config.maxRetries + 1
             /\ \E i \in DOMAIN stdout :
                   /\ LinesBy(t) = {i}
                   /\ Get(stdout[i].value, "jsonrpc") = Str("2.0")
                   /\ Get(stdout[i].value, "id") =
                        (IF LineId(tasks[t].line) = Undef THEN Null
                         ELSE LineId(tasks[t].line))
                   /\ Get(Get(stdout[i].value, "error"), "code") = Num(-32603)
                   /\ Get(stdout[i].value, "result") = Undef

\* After one retry, a request with id 1 and a request without id both ended
\* in the error envelope.
C7_Witness ==
  /\ config.maxRetries = 1
  /\ \E t \in Tasks :
        /\ tasks[t].outcome = "raised" /\ tasks[t].phase = "main"
        /\ LineId(tasks[t].line) = Num(1) /\ tasks[t].sent = 2
  /\ \E t \in Tasks :
        /\ tasks[t].outcome = "raised" /\ tasks[t].phase = "main"
        /\ LineId(tasks[t].line) = Undef

(***************************************************************************)
(* The error normalizer alone: one plain-JSON response, from its first     *)
(* chunk to the value handleJSONResponse settles the call with.            *)
(***************************************************************************)
LongText ==
  "<html><head><title>502 Bad Gateway</title></head><body><center><h1>502 Bad "
  \o "Gateway</h1></center><hr><center>nginx</center><p>The server returned an "
  \o "invalid or incomplete response. Please try again later or contact the "
  \o "administrator of this site.</p></body></html>"

\* Documents a server may answer with: every combination of the members the
\* normalizer looks at.
ServerDocs ==
  { Doc([jsonrpc |-> j, id |-> i, result |-> r, error |-> e, message |-> m,
         exception |-> x, trace |-> tr]) :
      j \in {Absent, Str("2.0"), Str("1.0")},
      i \in {Absent, Null, Num(7)},
      r \in {Absent, Null, Num(0), ToolsResult},
      e \in {Absent, Null, ServerError},
      m \in {Absent, Str(""), Str("boom")},
      x \in {Absent, Str("RuntimeException")},
      tr \in {Absent, Str("#0 index.php(12)")} }

ServerScalars ==
  { Null, Num(0), Num(42), Str(""), Str("ok"), Bool(TRUE), Bool(FALSE), Arr(<<>>),
    Arr(<<Doc([field |-> Str("name"), message |-> Str("Required")])>>),
    Doc([line |-> Num(12), file |-> Str("index.php")]) }

NormBodies ==
  {JsonText(v) : v \in ServerDocs \cup ServerScalars}
    \cup {Text("", SyntaxError), Text("not json", SyntaxError), Text(LongText, SyntaxError)}

InitNorm ==
  /\ nrm \in {[st |-> "receiving", body |-> b, data |-> ""] : b \in NormBodies}
  /\ config = DefaultConfig(0, FALSE)
  /\ InitState
  /\ stdout = <<>>
  /\ stderr = {}
  /\ probe = NoProbe

normFrame ==
  UNCHANGED <<config, running, now, ticks, nread, tasks, stdout, stderr,
              requestCounter, sessionId, received, toolCache, cacheTimestamps, probe>>

\* 'data': data += chunk, the chunk being the next n characters of the body.
NormData(n) ==
  /\ nrm.st = "receiving"
  /\ n > 0
  /\ Len(nrm.data) + n <= Len(nrm.body.raw)
  /\ nrm' = [nrm EXCEPT !.data =
               @ \o SubSeq(nrm.body.raw, Len(@) + 1, Len(@) + n)]
  /\ normFrame

\* 'end', once the whole body has arrived: the call is resolved.
NormEnd ==
  /\ nrm.st = "receiving"
  /\ nrm.data = nrm.body.raw
  /\ nrm' = [st |-> "resolved", body |-> nrm.body, data |-> nrm.data,
             out |-> handleJSONResponse(Text(nrm.data, nrm.body.json))]
  /\ normFrame

\* 'error' on the response stream: the call is rejected.
NormError ==
  /\ nrm.st = "receiving"
  /\ nrm' = [st |-> "rejected", body |-> nrm.body, data |-> nrm.data]
  /\ normFrame

\* A body arrives whole or in two chunks.
ChunkSizes(body) == {Len(body.raw), Len(body.raw) \div 2, Len(body.raw) - (Len(body.raw) \div 2)}

NextNorm ==
  \/ \E n \in ChunkSizes(nrm.body) : NormData(n)
  \/ NormEnd
  \/ NormError

NormSpec == InitNorm /\ [][NextNorm]_vars

\* C8: for any body on the plain-JSON path the normalizer returns an object
\* with version "2.0" and exactly one of result / error set.
C8_EnvelopeTotality ==
  nrm.st = "resolved" => IsResponseEnvelope(nrm.out)

\* C9: a body that cannot be parsed as JSON yields the envelope with id
\* null, code -32700, message "Invalid JSON response from server", data.type
\* "parse_error" and the first 200 characters of the body.
C9_ParseFailureEnvelope ==
  (nrm.st = "resolved" /\ ~JSONParses(nrm.body))
     => nrm.out = ParseErrorEnvelope(nrm.body.raw)

(***************************************************************************)
(* The response cache alone: stores and lookups at chosen times.           *)
(***************************************************************************)
CacheKeys ==
  { getCacheKey(Request(Num(1), Str("tools/list"))),
    getCacheKey(Request(Num(1), Str("prompts/list"))) }

CacheValues ==
  { Doc([jsonrpc |-> Str("2.0"), id |-> Num(99), result |-> ToolsResult]),
    Doc([jsonrpc |-> Str("2.0"), id |-> Num(98), error |-> ServerError]) }

CacheTickSteps == {1, CACHE_TTL - 1, CACHE_TTL}

\* probe.stores: for each key, when it was last stored and with what value.
\* probe.last: the latest lookup (key, age of the last store at that time,
\* value returned, whether the maps still held the key afterwards).
InitCache ==
  /\ probe = [st |-> "idle", stores |-> NoMap]
  /\ config = DefaultConfig(0, FALSE)
  /\ InitState
  /\ stdout = <<>>
  /\ stderr = {}
  /\ nrm = NoNrm

cacheFrame ==
  UNCHANGED <<config, running, nread, tasks, stdout, stderr, requestCounter,
              sessionId, received, nrm>>

CacheStore(cacheKey, response) ==
  /\ toolCache' = setCachedResponse(cacheKey, response).toolCache
  /\ cacheTimestamps' = setCachedResponse(cacheKey, response).cacheTimestamps
  /\ probe' = [st |-> "stored",
               stores |-> MapSet(probe.stores, cacheKey, [at |-> now, value |-> response])]
  /\ UNCHANGED <<now, ticks>>
  /\ cacheFrame

CacheLookup(cacheKey) ==
  /\ cacheKey \in DOMAIN probe.stores
  /\ toolCache' = getCachedResponse(cacheKey).toolCache
  /\ cacheTimestamps' = getCachedResponse(cacheKey).cacheTimestamps
  /\ probe' = [st |-> "looked",
               stores |-> probe.stores,
               last |-> [key |-> cacheKey,
                         age |-> now - probe.stores[cacheKey].at,
                         value |-> getCachedResponse(cacheKey).value,
                         held |-> cacheKey \in DOMAIN getCachedResponse(cacheKey).toolCache
                                    \/ cacheKey \in DOMAIN getCachedResponse(cacheKey).cacheTimestamps]]
  /\ UNCHANGED <<now, ticks>>
  /\ cacheFrame

CacheTick(d) ==
  /\ ticks < MaxCacheTicks
  /\ ticks' = ticks + 1
  /\ now' = now + d
  /\ UNCHANGED <<toolCache, cacheTimestamps, probe>>
  /\ cacheFrame

NextCache ==
  \/ \E cacheKey \in CacheKeys, response \in CacheValues : CacheStore(cacheKey, response)
  \/ \E cacheKey \in CacheKeys : CacheLookup(cacheKey)
  \/ \E d \in CacheTickSteps : CacheTick(d)

CacheSpec == InitCache /\ [][NextCache]_vars

\* C10 as claimed: a value stored at T is returned unchanged by a lookup at
\* T + D for every D < 300000, and is absent and purged for every
\* D >= 300000.
C10_TTL_Claimed ==
  probe.st = "looked" =>
     LET stored == probe.stores[probe.last.key].value
     IN /\ probe.last.age < 300000 => probe.last.value = stored
        /\ probe.last.age >= 300000 => (probe.last.value = Null /\ ~probe.last.held)

\* C10 as amended: a value stored at T is returned unchanged by a lookup at
\* T + D for every D <= 300000, and is absent and purged for every
\* D > 300000.
C10_TTL ==
  probe.st = "looked" =>
     LET stored == probe.stores[probe.last.key].value
     IN /\ probe.last.age <= 300000 => probe.last.value = stored
        /\ probe.last.age > 300000 => (probe.last.value = Null /\ ~probe.last.held)

\* A lookup exactly 300000 ms after the store returned the stored value.
C10_Witness ==
  /\ probe.st = "looked"
  /\ probe.last.age = 300000
  /\ probe.last.value = probe.stores[probe.last.key].value
  /\ probe.last.value # Null


(***************************************************************************)
(* The backoff calculator alone: a retry policy, and delays computed for   *)
(* chosen attempts and random draws.                                        *)
(***************************************************************************)
\* Retry policies: delays are durations (never negative), zero included.
RetryPolicies ==
  { ProxyConfig(MaxAttempt, b, m, j, FALSE, [method |-> "Bearer", token |-> "abc123"]) :
      b \in {0, 1, 3, 1000}, m \in {0, 1, 1000, 30000}, j \in BOOLEAN }

InitBackoff ==
  /\ config \in RetryPolicies
  /\ InitState
  /\ stdout = <<>>
  /\ stderr = {}
  /\ nrm = NoNrm
  /\ probe = [st |-> "idle"]

\* calculateBackoffDelay(attempt) is called and Math.random(), if it is
\* called, returns random / RandomGrid.
Backoff(attempt, random) ==
  /\ probe' = [st |-> "computed", attempt |-> attempt, random |-> random,
               delay |-> calculateBackoffDelay(attempt, random)]
  /\ UNCHANGED <<config, running, now, ticks, nread, tasks, stdout, stderr,
                 requestCounter, sessionId, received, toolCache, cacheTimestamps, nrm>>

NextBackoff ==
  \E attempt \in 0..MaxAttempt, random \in 0..(RandomGrid - 1) : Backoff(attempt, random)

BackoffSpec == InitBackoff /\ [][NextBackoff]_vars

(***************************************************************************)
(* Properties of the cache, the handshake and the session in the loop.     *)
(***************************************************************************)
\* C11: of two lines with the same cacheable method and parameters, read
\* less than 5 minutes apart with the cache enabled and empty at the first,
\* the second causes no outbound call and, once handled, has been answered
\* from the cache under its own id, however their handling interleaves.
C11_SecondLineFromCache ==
  \A t1, t2 \in Tasks :
     (/\ t1 < t2
      /\ tasks[t2].pc # "unread"
      /\ ~config.disableCache
      /\ LineMethod(tasks[t1].line) = Str("tools/list")
      /\ LineMethod(tasks[t2].line) = Str("tools/list")
      /\ getCacheKey(JSONParse(tasks[t1].line)) = getCacheKey(JSONParse(tasks[t2].line))
      /\ tasks[t2].readAt - tasks[t1].readAt < CACHE_TTL)
     => /\ tasks[t2].sent = 0
        /\ \E i \in DOMAIN stdout :
              /\ LinesBy(t2) = {i}
              /\ stdout[i].via = "cache"
              /\ Get(stdout[i].value, "id") = LineId(tasks[t2].line)

IsInitialize(t) == LineMethod(tasks[t].line) = Str("initialize")

\* C12 as claimed: an initialize request that has been handled has exactly
\* one line and was followed by exactly one outbound notification call,
\* however the forward turned out.
C12_Claimed ==
  \A t \in Tasks :
     (IsInitialize(t) /\ tasks[t].pc = "done")
       => /\ Cardinality(LinesBy(t)) = 1
          /\ tasks[t].phase = "notify"
          /\ tasks[t].sent = 1

\* C12 as amended: an initialize request never has more than one line.  When
\* the forward returned, that line is the response and the notification
\* notifications/initialized (no id) is then sent through the retry
\* orchestrator, in 1 to maxRetries + 1 outbound calls; nothing is sent
\* before the write.  When the forward failed on all attempts, the line is
\* the error envelope and no notification is sent.
C12_InitializeHandshake ==
  \A t \in Tasks :
     IsInitialize(t) =>
       /\ Cardinality(LinesBy(t)) <= 1
       /\ tasks[t].phase = "notify" =>
            /\ \E i \in DOMAIN stdout : LinesBy(t) = {i} /\ stdout[i].via = "response"
            /\ tasks[t].sent >= 1
            /\ tasks[t].sent <= config.maxRetries + 1
            /\ tasks[t].request # Undef =>
                 /\ Get(tasks[t].request.body, "method") = Str("notifications/initialized")
                 /\ Get(tasks[t].request.body, "id") = Undef
       /\ (tasks[t].phase = "main" /\ tasks[t].pc \in {"inflight", "sleeping"})
            => LinesBy(t) = {}
       /\ (tasks[t].phase = "main" /\ tasks[t].pc = "done") =>
            /\ tasks[t].outcome = "raised"
            /\ \E i \in DOMAIN stdout : LinesBy(t) = {i} /\ stdout[i].via = "catch"

\* An initialize request was answered and its notification, retried once,
\* is on the wire.
C12_Witness ==
  \E t \in Tasks :
     /\ IsInitialize(t)
     /\ tasks[t].phase = "notify"
     /\ tasks[t].pc = "inflight"
     /\ tasks[t].sent = 2
     /\ LinesBy(t) # {}

\* The step dispatches a request of task t: a first attempt, a retry, or the
\* notification that follows initialize.
Dispatched(t) ==
  /\ tasks'[t].pc = "inflight"
  /\ tasks'[t].net = "request"
  /\ tasks[t].pc # "inflight" \/ tasks[t].phase # tasks'[t].phase

\* The Mcp-Session-Id header of a request on the wire (undefined: none).
SessionHeader(request) ==
  IF "Mcp-Session-Id" \in DOMAIN request.headers
  THEN Str(request.headers["Mcp-Session-Id"])
  ELSE Undef

\* C13: every request dispatched carries the Mcp-Session-Id header equal to
\* the identifier of the latest response that carried one, and no such
\* header if no response has carried one yet.
C13_SessionPropagation ==
  [][\A t \in Tasks :
       Dispatched(t) =>
         SessionHeader(tasks'[t].request) = received]_vars

\* Two identifiers were received one after the other, and a retry sent
\* after each is on the wire with the identifier of its time.
C13_Witness ==
  \E t1, t2 \in Tasks :
     /\ tasks[t1].request # Undef /\ SessionHeader(tasks[t1].request) = Str("sess-A")
     /\ tasks[t2].request # Undef /\ SessionHeader(tasks[t2].request) = Str("sess-B")
     /\ tasks[t1].attempt = 1 /\ tasks[t2].attempt = 1
     /\ received = Str("sess-B")

\* C14: a request on the wire carries exactly one auth header: X-API-Key
\* for the method X-API-Key, and otherwise Authorization with the scheme of
\* the method, Bearer when the method is none of the four.
C14_AuthHeader ==
  \A t \in Tasks :
     tasks[t].request # Undef =>
       LET headers == tasks[t].request.headers
           method == config.auth.method
           token == config.auth.token
       IN IF method = "X-API-Key"
          THEN /\ "X-API-Key" \in DOMAIN headers
               /\ headers["X-API-Key"] = token
               /\ "Authorization" \notin DOMAIN headers
          ELSE /\ "X-API-Key" \notin DOMAIN headers
               /\ "Authorization" \in DOMAIN headers
               /\ headers["Authorization"] =
                    (IF method \in {"Bearer", "ApiKey", "Token"} THEN method ELSE "Bearer")
                      \o " " \o token

\* The notification that follows initialize is on the wire with the API-key
\* header.
C14_Witness ==
  \E t \in Tasks :
     /\ tasks[t].request # Undef
     /\ tasks[t].phase = "notify"
     /\ config.auth.method = "X-API-Key"
     /\ "X-API-Key" \in DOMAIN tasks[t].request.headers
     /\ tasks[t].request.headers["X-API-Key"] = "abc123"

\* C15: for every attempt and every policy (non-negative delays) the delay
\* lies between 0 and 1.25 * maxDelay, and with jitter off it is exactly
\* min(baseDelay * 2^attempt, maxDelay).
C15_BackoffBounds ==
  probe.st = "computed" =>
     /\ probe.delay >= 0
     /\ 4 * probe.delay <= 5 * DelayScale * config.maxDelay
     /\ ~config.jitter =>
          probe.delay = DelayScale * Min(config.baseDelay * 2^probe.attempt, config.maxDelay)

\* With jitter on, a capped delay came out above maxDelay.
C15_Witness ==
  /\ probe.st = "computed"
  /\ config.jitter
  /\ config.baseDelay * 2^probe.attempt > config.maxDelay
  /\ probe.delay > DelayScale * config.maxDelay

\* The step reads a line that is not valid JSON as task t.
ReadsBadLine(t) ==
  tasks[t].pc = "unread" /\ tasks'[t].pc # "unread" /\ ~JSONParses(tasks'[t].line)

\* C16: a line that is not valid JSON has exactly one line on the output
\* stream, the envelope with id null and code -32603, and no outbound call;
\* reading it leaves the loop running.
C16_BadLine ==
  /\ [](\A t \in Tasks :
          (tasks[t].pc # "unread" /\ ~JSONParses(tasks[t].line)) =>
             /\ tasks[t].pc = "done"
             /\ tasks[t].sent = 0
             /\ \E i \in DOMAIN stdout :
                   /\ LinesBy(t) = {i}
                   /\ Get(stdout[i].value, "jsonrpc") = Str("2.0")
                   /\ Get(stdout[i].value, "id") = Null
                   /\ Get(Get(stdout[i].value, "error"), "code") = Num(-32603)
                   /\ Get(stdout[i].value, "result") = Undef)
  /\ [][\A t \in Tasks : ReadsBadLine(t) => (running' /\ nread' = nread + 1)]_vars

\* After a line that is not valid JSON, a later line was read, forwarded and
\* answered.
C16_Witness ==
  /\ ~JSONParses(tasks[1].line) /\ tasks[1].pc = "done"
  /\ tasks[2].pc = "done" /\ tasks[2].outcome = "returned"
  /\ LinesBy(2) # {}

\* C17: every line on the output stream was written by one of the three
\* response writes of the message loop, as the JSON text of one value; what
\* the proxy logs (request handling, retries, cache, session, errors, end of
\* input) went to the error stream.  The shape of the values is C1's matter.
C17_LogsOnErrorStream ==
  /\ \A i \in DOMAIN stdout :
        /\ stdout[i].via \in {"response", "cache", "catch"}
        /\ stdout[i].task \in Tasks
        /\ stdout[i].value.k \in {"object", "array", "string", "number", "boolean", "null"}
  /\ Len(stdout) <= nread
  /\ stderr \subseteq {"[LeantimeMCP]", "[LeantimeMCP ERROR]"}
  /\ "[LeantimeMCP]" \in stderr
  /\ (\E t \in Tasks : tasks[t].outcome = "raised") => "[LeantimeMCP ERROR]" \in stderr
  /\ (\E i \in DOMAIN stdout : stdout[i].via = "catch") => "[LeantimeMCP ERROR]" \in stderr

\* A request that failed and one that was answered, both logged, and the end
\* of input.
C17_Witness ==
  /\ "[LeantimeMCP ERROR]" \in stderr
  /\ \E i \in DOMAIN stdout : stdout[i].via = "catch"
  /\ \E i \in DOMAIN stdout : stdout[i].via = "response"
  /\ ~running

(***************************************************************************)
(* Properties of the one-request entry points.                             *)
(***************************************************************************)
\* C18: a call of proxyRequest or handleHttpRequest returns one envelope;
\* when the transport failed on all attempts it is the -32603 envelope with
\* the id of the request, whatever that id is, and null if it has none.
C18_EntryPointEnvelope ==
  \A t \in Tasks :
     (tasks[t].phase \in EntryPoints /\ tasks[t].pc = "done") =>
        /\ tasks[t].result # Undef
        /\ tasks[t].outcome = "raised" =>
             /\ Get(Get(tasks[t].result, "error"), "code") = Num(-32603)
             /\ Get(tasks[t].result, "id") =
                  (IF LineId(tasks[t].line) = Undef THEN Null ELSE LineId(tasks[t].line))

(***************************************************************************)
(* Properties of the error normalizer.                                     *)
(***************************************************************************)
\* C19: a parsed body is passed through unchanged exactly when its version
\* is "2.0" and exactly one of result / error is defined, whatever its
\* value and whatever exception-shaped fields come with it.
C19_PassThrough ==
  (nrm.st = "resolved" /\ JSONParses(nrm.body)) =>
     LET parsed == JSONParse(nrm.body)
     IN (nrm.out = parsed) <=>
          /\ Get(parsed, "jsonrpc") = Str("2.0")
          /\ (Get(parsed, "result") # Undef) # (Get(parsed, "error") # Undef)

\* The classification of C20, carries being the test for "an object that
\* carries message or exception".
Classified(parsed, out, carries) ==
  LET error == Get(out, "error")
  IN /\ Get(out, "jsonrpc") = Str("2.0")
     /\ Get(out, "result") = Undef
     /\ IF parsed.k = "object" /\ carries
        THEN /\ Get(error, "code") = Num(-32603)
             /\ Get(error, "message") \in {Get(parsed, "message"), Str("Server internal error")}
             /\ Truthy(Get(parsed, "message")) => Get(error, "message") = Get(parsed, "message")
             /\ Get(Get(error, "data"), "type") = Str("server_error")
             /\ Get(out, "id") = (IF Get(parsed, "id") = Undef THEN Null ELSE Get(parsed, "id"))
        ELSE IF parsed.k = "array"
        THEN /\ Get(error, "code") = Num(-32600)
             /\ Get(error, "message") = Str("Server validation error")
             /\ Get(Get(error, "data"), "type") = Str("validation_error")
             /\ Get(Get(error, "data"), "details") = parsed
        ELSE /\ Get(error, "code") = Num(-32603)
             /\ Get(error, "message") = Str("Invalid server response")
             /\ Get(Get(error, "data"), "type") = Str("malformed_response")

\* The body parsed and the validator turned it down.
Malformed == nrm.st = "resolved" /\ JSONParses(nrm.body) /\ nrm.out # JSONParse(nrm.body)

\* C20 as claimed: an object that has a message or exception member becomes
\* the server_error envelope, an array the validation_error envelope,
\* everything else the malformed_response envelope.
C20_Claimed ==
  Malformed =>
     LET parsed == JSONParse(nrm.body)
     IN Classified(parsed, nrm.out,
                   Get(parsed, "message") # Undef \/ Get(parsed, "exception") # Undef)

\* C20 as amended: the server_error envelope is for an object whose message
\* or exception is truthy (an empty message alone does not count); such an
\* object falls under "everything else".
C20_Classification ==
  Malformed =>
     LET parsed == JSONParse(nrm.body)
     IN Classified(parsed, nrm.out,
                   Truthy(Get(parsed, "message")) \/ Truthy(Get(parsed, "exception")))

\* An object with a message and id 7 became the server_error envelope with
\* id 7.
C20_Witness ==
  /\ Malformed
  /\ Get(JSONParse(nrm.body), "message") = Str("boom")
  /\ Get(JSONParse(nrm.body), "id") = Num(7)
  /\ Get(nrm.out, "id") = Num(7)
  /\ Get(Get(Get(nrm.out, "error"), "data"), "type") = Str("server_error")


(***************************************************************************)
(* The event-stream reader alone: handleSSEResponse on one response, from  *)
(* its first chunk to the end of the stream.                               *)
(***************************************************************************)
\* Largest number of blocks in a stream.
MaxEvents == 3

\* s.indexOf(sep) + 1 (0 when sep does not occur in s).
IndexOf(s, sep) ==
  LET at == {i \in 1..(Len(s) - Len(sep) + 1) : SubSeq(s, i, i + Len(sep) - 1) = sep}
  IN IF at = {} THEN 0 ELSE CHOOSE i \in at : \A j \in at : i <= j

RECURSIVE Split(_, _)

\* s.split(sep), sep not empty.
Split(s, sep) ==
  LET i == IndexOf(s, sep)
  IN IF i = 0 THEN <<s>>
     ELSE <<SubSeq(s, 1, i - 1)>> \o Split(SubSeq(s, i + Len(sep), Len(s)), sep)

WhiteSpace == {" ", "\n", "\r", "\t"}

RECURSIVE Trim(_)

\* s.trim()
Trim(s) ==
  IF s = "" THEN ""
  ELSE IF SubSeq(s, 1, 1) \in WhiteSpace THEN Trim(SubSeq(s, 2, Len(s)))
  ELSE IF SubSeq(s, Len(s), Len(s)) \in WhiteSpace THEN Trim(SubSeq(s, 1, Len(s) - 1))
  ELSE s

RECURSIVE parseSSELines(_, _, _)

\* The loop of parseSSEEvent over lines[i..], event being what it has so far.
parseSSELines(lines, i, event) ==
  IF i > Len(lines) THEN event
  ELSE parseSSELines(lines, i + 1,
         IF StartsWith(lines[i], "data: ")
         THEN [event EXCEPT !.data = @ \o SubSeq(lines[i], 7, Len(lines[i]))]
         ELSE IF StartsWith(lines[i], "event: ")
         THEN [event EXCEPT !.type = SubSeq(lines[i], 8, Len(lines[i]))]
         ELSE event)

parseSSEEvent(data) ==
  parseSSELines(Split(data, "\n"), 1, [type |-> "", data |-> ""])

\* The JSON values the events of this model carry.
SseDocs == {Doc([result |-> ToolsResult]), Doc([progress |-> Num(50)]), Doc([progress |-> Num(51)])}

\* The string s as a JSON text: JSON.parse succeeds on the texts of SseDocs
\* and throws on every other string of this model.
TextOf(s) ==
  IF \E v \in SseDocs : Stringify(v) = s
  THEN Text(s, CHOOSE v \in SseDocs : Stringify(v) = s)
  ELSE Text(s, SyntaxError)

\* The promise sendToServer returns.
Pending == [settled |-> "pending", value |-> Undef]

\* Mutant: a later call of resolve replaces the value.
promiseResolveLast(promise, value) ==
  IF promise.settled # "rejected"
  THEN [settled |-> "resolved", value |-> value]
  ELSE promise

\* resolve(value): settles the promise unless it is settled already.
promiseResolve(promise, value) ==
  IF promise.settled = "pending"
  THEN [settled |-> "resolved", value |-> value]
  ELSE promise

\* reject(new Error(message))
promiseReject(promise, message) ==
  IF promise.settled = "pending"
  THEN [settled |-> "rejected", value |-> Str(message)]
  ELSE promise

\* The body of events.forEach for one block; acc holds the promise and the
\* console.
sseEvent(acc, eventData) ==
  IF Trim(eventData) = "" THEN acc
  ELSE LET event == parseSSEEvent(eventData)
       IN IF event.data = "" THEN acc
          ELSE IF JSONParses(TextOf(event.data))
          THEN [acc EXCEPT !.promise = promiseResolve(@, JSONParse(TextOf(event.data)))]
          ELSE [acc EXCEPT !.io = logError(@, "Invalid JSON in SSE")]

RECURSIVE sseForEach(_, _, _)

sseForEach(events, i, acc) ==
  IF i > Len(events) THEN acc
  ELSE sseForEach(events, i + 1, sseEvent(acc, events[i]))

\* The 'end' handler on the block left in the buffer.
sseFinal(promise, buffer) ==
  IF Trim(buffer) = "" THEN promise
  ELSE LET event == parseSSEEvent(buffer)
       IN IF event.data = "" THEN promise
          ELSE IF JSONParses(TextOf(event.data))
          THEN promiseResolve(promise, JSONParse(TextOf(event.data)))
          ELSE promiseReject(promise, "Invalid JSON in final SSE")

\* Blocks of a stream: two that carry JSON, one whose data is cut short, a
\* comment, and one whose JSON is spread over two data lines.
SseBlocks ==
  { "data: " \o Stringify(Doc([result |-> ToolsResult])),
    "event: message\ndata: " \o Stringify(Doc([progress |-> Num(50)])),
    "data: {\"jsonrpc\":",
    ": keep-alive",
    "data: {\"progress\"\ndata: :51}" }

RECURSIVE Join(_, _)

Join(blocks, i) ==
  IF i > Len(blocks) THEN ""
  ELSE (IF i > 1 THEN "\n\n" ELSE "") \o blocks[i] \o Join(blocks, i + 1)

\* The texts of a stream: up to MaxEvents blocks, the last one terminated by
\* a blank line or not.
SseStreams ==
  {""} \cup
  { Join(blocks, 1) \o tail :
      blocks \in UNION {[1..n -> SseBlocks] : n \in 1..MaxEvents},
      tail \in {"", "\n\n"} }

\* probe.whole: the text of the stream; probe.sent: how much of it has
\* arrived; probe.ended: "open", "end" or "error".
InitSse ==
  /\ probe \in {[st |-> "sse", whole |-> w, sent |-> 0, buffer |-> "",
                 promise |-> Pending, ended |-> "open"] : w \in SseStreams}
  /\ config = DefaultConfig(0, FALSE)
  /\ InitState
  /\ stdout = <<>>
  /\ stderr = {}
  /\ nrm = NoNrm

sseFrame ==
  UNCHANGED <<config, running, now, ticks, nread, tasks, requestCounter,
              sessionId, received, toolCache, cacheTimestamps, nrm>>

\* 'data': the chunk is the next n characters of the stream.
SseData(n) ==
  /\ probe.ended = "open"
  /\ n > 0
  /\ probe.sent + n <= Len(probe.whole)
  /\ LET chunk == SubSeq(probe.whole, probe.sent + 1, probe.sent + n)
         events == Split(probe.buffer \o chunk, "\n\n")
         done == sseForEach(SubSeq(events, 1, Len(events) - 1), 1,
                            [promise |-> probe.promise, io |-> Console])
     IN /\ probe' = [probe EXCEPT !.sent = @ + n,
                                  !.buffer = events[Len(events)],
                                  !.promise = done.promise]
        /\ Emit(done.io)
  /\ sseFrame

\* 'end', once the whole stream has arrived.
SseStreamEnd ==
  /\ probe.ended = "open"
  /\ probe.sent = Len(probe.whole)
  /\ probe' = [probe EXCEPT !.ended = "end",
                            !.promise = sseFinal(@, probe.buffer)]
  /\ UNCHANGED <<stdout, stderr>>
  /\ sseFrame

\* 'error' on the response stream.
SseStreamError(message) ==
  /\ probe.ended = "open"
  /\ probe' = [probe EXCEPT !.ended = "error",
                            !.promise = promiseReject(@, message)]
  /\ UNCHANGED <<stdout, stderr>>
  /\ sseFrame

\* A chunk is one character, half of what is left, or all of it.
SseChunkSizes ==
  LET left == Len(probe.whole) - probe.sent
  IN {1, left \div 2, left}

NextSse ==
  \/ \E n \in SseChunkSizes : SseData(n)
  \/ SseStreamEnd
  \/ \E message \in TransportErrors : SseStreamError(message)

SseSpec == InitSse /\ [][NextSse]_vars

\* Does the block carry data that parses as JSON?
JsonBearing(eventData) ==
  /\ Trim(eventData) # ""
  /\ parseSSEEvent(eventData).data # ""
  /\ JSONParses(TextOf(parseSSEEvent(eventData).data))

\* The events that have arrived, in stream order: the blocks of the text
\* received so far that a blank line has closed and, once the stream has
\* ended, the block after them.
ArrivedEvents ==
  LET blocks == Split(SubSeq(probe.whole, 1, probe.sent), "\n\n")
  IN IF probe.ended = "end" THEN blocks ELSE SubSeq(blocks, 1, Len(blocks) - 1)

\* Position of the first event that carries JSON (0: there is none).
FirstJson(events) ==
  LET at == {i \in DOMAIN events : JsonBearing(events[i])}
  IN IF at = {} THEN 0 ELSE CHOOSE i \in at : \A j \in at : i <= j

\* C24: over an event stream the call resolves with the first event, in
\* stream order, whose data parses as JSON: it is resolved as soon as that
\* event has arrived (unless the stream failed before), events with empty or
\* non-JSON data before it are skipped, and no event that arrives afterwards,
\* in the same chunk or a later one, changes the value.
C24_FirstJsonEvent ==
  /\ [](probe.st = "sse" =>
         LET first == FirstJson(ArrivedEvents)
         IN /\ probe.promise.settled = "resolved" =>
                 /\ first # 0
                 /\ probe.promise.value =
                      JSONParse(TextOf(parseSSEEvent(ArrivedEvents[first]).data))
            /\ first # 0 => probe.promise.settled = "resolved")
  /\ [][probe.st = "sse" /\ probe.promise.settled = "resolved"
          => probe'.promise = probe.promise]_vars

\* The stream has ended; the call was resolved by its second or third event,
\* the events before it having been skipped, and an event with another JSON
\* value arrived after it.
C24_Witness ==
  /\ probe.st = "sse"
  /\ probe.ended = "end"
  /\ probe.promise.settled = "resolved"
  /\ LET first == FirstJson(ArrivedEvents)
     IN /\ first > 1
        /\ \E i \in DOMAIN ArrivedEvents :
              /\ i > first
              /\ JsonBearing(ArrivedEvents[i])
              /\ JSONParse(TextOf(parseSSEEvent(ArrivedEvents[i]).data))
                   # probe.promise.value
        /\ "[LeantimeMCP ERROR]" \in stderr

\* C25: malformed JSON in an event never makes the call fail, be the event a
\* complete block or the block left when the stream ends: the call fails
\* only when the stream itself reports an error.
C25_MalformedNeverFatal ==
  probe.st = "sse" /\ probe.promise.settled = "rejected" => probe.ended = "error"

(***************************************************************************)
(* Event streams that end with nothing to resolve the call with.           *)
(***************************************************************************)
\* The block left in the buffer carries no data.
NoTrailingData == Text("", SyntaxError)

\* The catch-all envelope of task t, with error.data = message, is the last
\* line written.
LastLineReports(t, out, message) ==
  /\ Len(out) > 0
  /\ out[Len(out)].task = t
  /\ out[Len(out)].via = "catch"
  /\ Get(Get(out[Len(out)].value, "error"), "data") = Str(message)

\* What a failure of the call of task t with error `message` leads to: a
\* sleep before the next attempt while retries are left, else the failure of
\* sendToServerWithRetry with that error.
FailsWith(t, message) ==
  /\ tasks'[t].net = "none"
  /\ IF tasks[t].attempt < config.maxRetries
     THEN tasks'[t].pc = "sleeping" /\ stdout' = stdout
     ELSE /\ tasks'[t].pc = "done"
          /\ tasks'[t].outcome = "raised"
          /\ IF tasks[t].phase = "notify"
             THEN stdout' = stdout
             ELSE LastLineReports(t, stdout', message)

C27_NotificationFailureLogged ==
  /\ [](\A t \in Tasks :
          tasks[t].phase = "notify" /\ tasks[t].outcome = "raised" =>
             /\ IsInitialize(t)
             /\ tasks[t].attempt = config.maxRetries
             /\ Cardinality(LinesBy(t)) = 1
             /\ \A i \in LinesBy(t) : stdout[i].via = "response"
             /\ "[LeantimeMCP ERROR]" \in stderr)
  /\ [][\A t \in Tasks :
          tasks[t].phase = "notify" /\ tasks[t].outcome = "none"
            /\ tasks'[t].outcome = "raised" => stdout' = stdout]_vars

\* The notification has failed after two retries.
C27_Witness ==
  \E t \in Tasks :
    /\ tasks[t].phase = "notify"
    /\ tasks[t].outcome = "raised"
    /\ tasks[t].attempt = 2
    /\ tasks[t].sent = 3
    /\ Cardinality(LinesBy(t)) = 1

(***************************************************************************)
(* The session tracker.                                                    *)
(***************************************************************************)
\* Header values that extractSessionId leaves aside.
NoSessionHeaders == {Undef, Str(""), Arr(<<Str("sess-A"), Str("sess-B")>>)}

\* The response callback of some task runs in this step.
ResponseBegins(t) ==
  tasks[t].net = "request" /\ tasks'[t].net \in {"json", "sse"}

\* C29: the session tracker holds at most one identifier, the last one
\* received: a response with no session header, or with an empty or
\* non-string value, or with the value held, leaves it unchanged, a response
\* with another value replaces it, and once set it is never cleared; it is
\* extracted from the headers of every response before the body is consumed.
C29_LastWriteWins ==
  /\ [](/\ sessionId = received
        /\ sessionId \in {Undef} \cup (SessionHeaders \ NoSessionHeaders)
        /\ \A header \in NoSessionHeaders \cup {sessionId} :
             extractSessionId(header) = sessionId
        /\ \A header \in SessionHeaders \ NoSessionHeaders :
             extractSessionId(header) = header)
  /\ [][/\ sessionId # Undef => sessionId' # Undef
        /\ sessionId' # sessionId => \E t \in Tasks : ResponseBegins(t)
        /\ \A t \in Tasks : ResponseBegins(t) =>
             /\ sessionId' = received'
             /\ \E header \in SessionHeaders : sessionId' = extractSessionId(header)
             /\ tasks'[t].pc = "inflight"
             /\ stdout' = stdout]_vars

\* A request went out with identifier sess-A, and the headers of its
\* response have replaced that identifier by sess-B.
C29_Witness ==
  \E t \in Tasks :
    /\ tasks[t].net \in {"json", "sse"}
    /\ SessionHeader(tasks[t].request) = Str("sess-A")
    /\ sessionId = Str("sess-B")

(***************************************************************************)
(* The message loop in front of a server that answers over plain JSON and  *)
(* echoes the id of the request, as a JSON-RPC server does.                *)
(***************************************************************************)
RequestWith(id, method, params) ==
  Doc([jsonrpc |-> Str("2.0"), id |-> id, method |-> method, params |-> params])

\* List requests with and without id and params, a request whose method is
\* not on the list, and notifications.
EchoLines ==
  { JsonText(Request(Num(1), Str("tools/list"))),
    JsonText(Request(Num(2), Str("tools/list"))),
    JsonText(Request(Absent, Str("tools/list"))),
    JsonText(RequestWith(Num(3), Str("tools/list"), Null)),
    JsonText(RequestWith(Num(4), Str("resources/list"), Obj([name |-> Str("a")]))),
    JsonText(Request(Num(5), Str("tools/call"))),
    JsonText(Request(Num(6), Str("tools/lists"))),
    JsonText(Request(Absent, Str("notifications/initialized"))),
    JsonText(Request(Num(7), Str("notifications/cancelled"))) }

\* The id a server answers with: the request's, null when it has none.
EchoId(request) ==
  IF Get(request, "id") = Undef THEN Null ELSE Get(request, "id")

\* The bodies the server may answer the POST with: a result, an error, or
\* something that is not JSON.
EchoBodies(post) ==
  IF post = Undef THEN {}
  ELSE { JsonText(Doc([jsonrpc |-> Str("2.0"), id |-> EchoId(post.body),
                       result |-> ToolsResult])),
         JsonText(Doc([jsonrpc |-> Str("2.0"), id |-> EchoId(post.body),
                       error |-> ServerError])),
         Text("<html>502 Bad Gateway</html>", SyntaxError) }

EchoSessionHeaders == {Undef, Str("sess-A")}

NextEcho ==
  \/ \E line \in EchoLines : ReadLine(line)
  \/ \E t \in Tasks, header \in EchoSessionHeaders : ResponseHeaders(t, header, FALSE)
  \/ \E t \in Tasks : \E body \in EchoBodies(tasks[t].request) : JsonEnd(t, body)
  \/ \E t \in Tasks, message \in TransportErrors : TransportError(t, message)
  \/ \E t \in Tasks : SleepElapsed(t)
  \/ \E d \in TickSteps : Tick(d)
  \/ StdinEnd

EchoSpec == Init /\ [][NextEcho]_vars

\* Task t has read a line.
Read(t) == tasks[t].pc # "unread"

\* The id task t answers under (null: the request has none to restore).
OwnId(t) == tasks[t].requestId

\* C21: every value held in the response cache is a successful response
\* envelope; a response that carries an error is never stored, and so no
\* line served from the cache carries an error.
C21_NoErrorCached ==
  /\ \A key \in DOMAIN toolCache :
        /\ Get(toolCache[key], "error") = Undef
        /\ Get(toolCache[key], "result") # Undef
  /\ \A i \in DOMAIN stdout :
        stdout[i].via = "cache" => Get(stdout[i].value, "error") = Undef

\* Task t stored the response to its request under key.
Populated(t, key) ==
  /\ tasks[t].cacheKey = Str(key)
  /\ tasks[t].outcome = "returned"

\* C22: the value stored for a cacheable request does not contain the id of
\* a request that populated the entry, and no line served from the cache
\* shows the id of another request.
C22_NoCallerIdInCache ==
  /\ \A key \in DOMAIN toolCache : \A t \in Tasks :
        Populated(t, key) /\ OwnId(t) # Null =>
           Get(toolCache[key], "id") # OwnId(t)
  /\ \A i \in DOMAIN stdout :
        stdout[i].via = "cache" =>
           \/ Get(stdout[i].value, "id") = OwnId(stdout[i].task)
           \/ \A t \in Tasks \ {stdout[i].task} :
                 Read(t) => Get(stdout[i].value, "id") # OwnId(t)

\* The methods whose responses are cached.
CacheableMethods == {Str("tools/list"), Str("resources/list"), Str("prompts/list")}

IsCacheableLine(line) == JSONParses(line) /\ LineMethod(line) \in CacheableMethods

\* <method>_<JSON(params)>, with {} for params when the request has none or
\* has params that are falsy (null, false, 0, "").
KeyIfFalsy(request) ==
  Get(request, "method").s \o "_" \o
    Stringify(IF Truthy(Get(request, "params")) THEN Get(request, "params")
              ELSE Obj(NoKeys))

\* The requests read so far whose method is one of the three.
CacheableRead ==
  {JSONParse(tasks[t].line) : t \in {u \in Tasks : Read(u) /\ IsCacheableLine(tasks[u].line)}}

\* Every key of the two maps of the cache is one of keys.
KeysWithin(keys) == DOMAIN toolCache \cup DOMAIN cacheTimestamps \subseteq keys

\* The cache is looked at and served from only for the three methods and
\* with caching enabled; with caching disabled it stays empty and every
\* request for one of the three methods has caused an outbound call.
OnlyListRequests ==
  /\ \A t \in Tasks :
        tasks[t].cacheKey # Undef =>
           IsCacheableLine(tasks[t].line) /\ ~config.disableCache
  /\ \A i \in DOMAIN stdout :
        stdout[i].via = "cache" =>
           IsCacheableLine(tasks[stdout[i].task].line) /\ ~config.disableCache
  /\ config.disableCache =>
        /\ toolCache = NoMap
        /\ cacheTimestamps = NoMap
        /\ \A t \in Tasks :
              Read(t) /\ IsCacheableLine(tasks[t].line) => tasks[t].sent >= 1

\* C23 as claimed: the cache is read and written only for tools/list,
\* resources/list and prompts/list requests and only with caching enabled;
\* every cache key is <method>_<JSON(params, or {} if absent)>; with caching
\* disabled the cache stays empty and every such request is sent out.
C23_Claimed ==
  /\ KeysWithin({ Get(request, "method").s \o "_" \o
                    Stringify(IF Get(request, "params") = Undef THEN Obj(NoKeys)
                              ELSE Get(request, "params")) :
                  request \in CacheableRead })
  /\ OnlyListRequests

\* C23 as amended: the same, every cache key being
\* <method>_<JSON(params, or {} if params is absent or falsy)>.
C23_CacheScope ==
  /\ [](/\ KeysWithin({KeyIfFalsy(request) : request \in CacheableRead})
        /\ OnlyListRequests)
  /\ [][toolCache' # toolCache \/ cacheTimestamps' # cacheTimestamps =>
          /\ ~config.disableCache
          /\ \E t \in Tasks :
                tasks'[t] # tasks[t] /\ IsCacheableLine(tasks'[t].line)]_vars

\* The cache holds two entries: one stored for tools/list with params null,
\* one for resources/list with params.
C23_Witness ==
  /\ DOMAIN toolCache = {"tools/list_{}", "resources/list_{\"name\":\"a\"}"}
  /\ \E t \in Tasks :
        /\ Populated(t, "tools/list_{}")
        /\ Get(JSONParse(tasks[t].line), "params") = Null
  /\ \E t \in Tasks : Populated(t, "resources/list_{\"name\":\"a\"}")

\* C28: a message whose method starts with notifications/ is consumed
\* silently: reading it writes no line, dispatches no call, leaves the
\* cache, the session state and the other requests as they are, and only
\* advances the request counter (and logs); for notifications/initialized
\* the log has one more entry and nothing else differs.
C28_NotificationConsumed ==
  /\ [](notificationLog(Str("notifications/initialized"))
          = notificationLog(Str("notifications/cancelled"))
              \o <<"MCP handshake completed - ready for requests">>)
  /\ [][nread' = nread + 1 /\ InNotificationNamespace(tasks'[nread'].line) =>
          /\ stdout' = stdout
          /\ toolCache' = toolCache
          /\ cacheTimestamps' = cacheTimestamps
          /\ sessionId' = sessionId
          /\ received' = received
          /\ requestCounter' = requestCounter + 1
          /\ running' = running
          /\ stderr' = stderr \cup {"[LeantimeMCP]"}
          /\ tasks'[nread'].pc = "done"
          /\ tasks'[nread'].sent = 0
          /\ tasks'[nread'].net = "none"
          /\ tasks'[nread'].request = Undef
          /\ \A t \in Tasks \ {nread'} : tasks'[t] = tasks[t]]_vars

\* A notification was read as second line, with an entry in the cache and a
\* session identifier held: it is done, and has written and sent nothing.
C28_Witness ==
  /\ nread = 2
  /\ InNotificationNamespace(tasks[2].line)
  /\ tasks[2].pc = "done"
  /\ tasks[2].sent = 0
  /\ LinesBy(2) = {}
  /\ DOMAIN toolCache # {}
  /\ sessionId # Undef
  /\ requestCounter = 2

\* C30: handling of a line never blocks reading or handling of the next:
\* while the input is open the next line can be read whatever the state of
\* the lines before it, and a response that has arrived for a request can be
\* handled whatever the state of the other requests.
C30_LinesNotBlocked ==
  /\ running /\ nread < MaxLines => \A line \in EchoLines : ENABLED ReadLine(line)
  /\ \A t \in Tasks :
        InFlight(t, {"json"}) =>
           \A body \in EchoBodies(tasks[t].request) : ENABLED JsonEnd(t, body)

\* Output order differs from arrival order: the second request was answered
\* first, the first one having gone through a retry backoff.
C30_Witness ==
  /\ Len(stdout) = 2
  /\ stdout[1].task = 2
  /\ stdout[2].task = 1
  /\ tasks[1].attempt >= 1
  /\ tasks[1].readAt <= tasks[2].readAt

(***************************************************************************)
(* The two cache maps.                                                     *)
(***************************************************************************)
\* C39: after any sequence of cache stores and lookups, toolCache and
\* cacheTimestamps have exactly the same key set.
C39_MapsInStep == DOMAIN toolCache = DOMAIN cacheTimestamps

\* An expired lookup has purged one key while another key is still held.
C39_Witness ==
  /\ probe.st = "looked"
  /\ probe.last.value = Null
  /\ probe.last.key \notin DOMAIN toolCache
  /\ DOMAIN toolCache # {}

(***************************************************************************)
(* A cacheable request whose forward fails.                                *)
(***************************************************************************)
\* Task t asked for a cacheable method, missed the cache, and its forward
\* failed after all retries.
FailedCacheable(t) ==
  /\ tasks[t].cacheKey # Undef
  /\ tasks[t].outcome = "raised"

\* A request with the cache key of task t, read now, would be served from
\* the cache.
WouldHit(t) == Truthy(getCachedResponse(tasks[t].cacheKey.s).value)

Underway(t) == tasks[t].pc \in {"inflight", "sleeping"}

\* C36: at the end of the input stream the process exits: the step writes no
\* line and ends every call under way without a response; from then on no
\* line is written, no call is dispatched and nothing else happens, so a
\* request that was in flight at that moment has no response line.
C36_EndOfInput ==
  /\ [](~running =>
          \A t \in Tasks :
             /\ ~Underway(t)
             /\ tasks[t].request = Undef
             /\ tasks[t].pc = "killed" /\ tasks[t].phase = "main" => LinesBy(t) = {})
  /\ [][running /\ ~running' =>
          /\ stdout' = stdout
          /\ nread' = nread
          /\ \A t \in Tasks :
                /\ tasks'[t].sent = tasks[t].sent
                /\ Underway(t) => tasks'[t].pc = "killed"
                /\ ~Underway(t) => tasks'[t] = tasks[t]]_vars
  /\ [][~running => UNCHANGED vars]_vars

\* The input ended with two requests sent to the server and neither of
\* them answered.
C36_Witness ==
  /\ ~running
  /\ nread = 2
  /\ \A t \in Tasks : tasks[t].pc = "killed" /\ tasks[t].phase = "main"
  /\ \E t \in Tasks : tasks[t].attempt = 0 /\ tasks[t].sent = 1
  /\ stdout = <<>>

(***************************************************************************)
(* The status code of a response.  One request, answered over plain JSON   *)
(* with any status; probe.status keeps res.statusCode of the latest        *)
(* response to each task (0: none yet).                                    *)
(***************************************************************************)
StatusCodes == {200, 404, 500, 503}

InitStatus ==
  /\ config \in {DefaultConfig(m, c) : m \in 0..MaxRetries, c \in BOOLEAN}
  /\ InitState
  /\ stdout = startupLog.out
  /\ stderr = startupLog.err
  /\ nrm = NoNrm
  /\ probe = [st |-> "status", status |-> [t \in Tasks |-> 0]]

\* Mutant: a response with a 5xx status rejects the call.
StatusResponseChecked(t, statusCode, header) ==
  /\ InFlight(t, {"request"})
  /\ probe' = [probe EXCEPT !.status[t] = statusCode]
  /\ UNCHANGED <<config, running, now, ticks, nread, requestCounter, nrm>>
  /\ IF statusCode >= 500
     THEN /\ Reject(t, "Server error", Console)
          /\ UNCHANGED <<sessionId, received>>
     ELSE /\ sessionId' = extractSessionId(header)
          /\ received' = IF header.k = "string" /\ header.s # "" THEN header ELSE received
          /\ Emit(extractSessionIdLog(Console, header))
          /\ tasks' = [tasks EXCEPT ![t].net = "json"]
          /\ UNCHANGED <<toolCache, cacheTimestamps>>

\* The response callback of sendToServer for a response with status
\* statusCode that is not an event stream: the callback reads the content
\* type and the session header, and not the status.
StatusResponse(t, statusCode, header) ==
  /\ InFlight(t, {"request"})
  /\ probe' = [probe EXCEPT !.status[t] = statusCode]
  /\ sessionId' = extractSessionId(header)
  /\ received' = IF header.k = "string" /\ header.s # "" THEN header ELSE received
  /\ Emit(extractSessionIdLog(Console, header))
  /\ tasks' = [tasks EXCEPT ![t].net = "json"]
  /\ UNCHANGED <<toolCache, cacheTimestamps>>
  /\ UNCHANGED <<config, running, now, ticks, nread, requestCounter, nrm>>

StatusLines == EchoLines \cup {JsonText(Request(Num(8), Str("initialize")))}

NextStatus ==
  \/ \E line \in StatusLines : ReadFirstLine(line)
  \/ \E t \in Tasks, statusCode \in StatusCodes, header \in EchoSessionHeaders :
        StatusResponse(t, statusCode, header)
  \/ \E t \in Tasks : \E body \in EchoBodies(tasks[t].request) : JsonEnd(t, body)
  \/ \E t \in Tasks, message \in TransportErrors : TransportError(t, message)
  \/ \E t \in Tasks : RequestTimeout(t)
  \/ \E t \in Tasks : SleepElapsed(t)
  \/ StdinEnd

StatusSpec == InitStatus /\ [][NextStatus]_vars

\* The call of task t is rejected in this step: a request or response error
\* or the timeout.
Rejected(t) ==
  \/ \E message \in TransportErrors : TransportError(t, message)
  \/ RequestTimeout(t)

\* C38: the status code of a response never causes a retry.  The end of a
\* plain-JSON body, whatever the status, resolves the call with the body
\* (normalized if needed): no retry is scheduled, no further attempt made,
\* and for a request the result is written to the client; a retry is
\* scheduled only by a rejection; a reply received on the first attempt
\* reaches the client after exactly one dispatch.
C38_StatusNeverRetried ==
  /\ [](\A t \in Tasks :
          tasks[t].phase = "main" /\ tasks[t].outcome = "returned" =>
             /\ tasks[t].sent = tasks[t].attempt + 1
             /\ Cardinality(LinesBy(t)) = 1)
  /\ [][\A t \in Tasks :
          (\E body \in EchoBodies(tasks[t].request) : JsonEnd(t, body)) =>
             /\ tasks'[t].pc # "sleeping"
             /\ tasks'[t].outcome = "returned" \/ tasks'[t].phase = "notify"
             /\ tasks[t].phase = "main" =>
                  /\ Len(stdout') = Len(stdout) + 1
                  /\ stdout'[Len(stdout')].task = t
                  /\ stdout'[Len(stdout')].via = "response"
                  /\ \E body \in EchoBodies(tasks[t].request) :
                        stdout'[Len(stdout')].value =
                           restoreId(handleJSONResponse(body), tasks[t].requestId)
             /\ tasks[t].phase = "notify" \/ ~IsInitialize(t) =>
                  tasks'[t].sent = tasks[t].sent]_vars
  /\ [][\A t \in Tasks :
          tasks'[t].pc = "sleeping" /\ tasks[t].pc # "sleeping" => Rejected(t)]_vars

\* A 500 reply with an HTML body to the first attempt of a request: the
\* client got the normalized error, and one call was made.
C38_Witness ==
  /\ probe.status[1] = 500
  /\ config.maxRetries = 1
  /\ tasks[1].outcome = "returned"
  /\ tasks[1].sent = 1
  /\ tasks[1].requestId = Num(5)
  /\ Len(stdout) = 1
  /\ stdout[1].value =
       WithId(convertServerErrorToJsonRpc("<html>502 Bad Gateway</html>", Null), Num(5))

(***************************************************************************)
(* The suspension between two attempts.  One request, answered over plain  *)
(* JSON or rejected; probe.timer[t] is the timer sleep(delay) has set for  *)
(* task t: when it was set, the delay (in units of 1 / DelayScale ms) and  *)
(* the kind of rejection that led to it.                                   *)
(***************************************************************************)
MaxSleepTicks == 5

SleepSteps == {700, 1300}

SleepPolicies ==
  { ProxyConfig(m, 1000, d, j, FALSE, [method |-> "Bearer", token |-> "abc123"]) :
      m \in 0..2, d \in {1500, 30000}, j \in BOOLEAN }

NoTimer == [set |-> 0, delay |-> 0, by |-> "none"]

InitSleep ==
  /\ config \in SleepPolicies
  /\ InitState
  /\ stdout = startupLog.out
  /\ stderr = startupLog.err
  /\ nrm = NoNrm
  /\ probe = [st |-> "timers", timer |-> [t \in Tasks |-> NoTimer]]

\* The failures sendToServer rejects with: the 'timeout' event, an 'error'
\* event of the request (connection refused, certificate rejected) and an
\* 'error' event of the response stream.
RejectionKinds == {"timeout", "ECONNREFUSED", "self-signed certificate", "aborted"}

\* The state of the exchange in which a rejection of this kind can occur.
RejectionNets(kind) ==
  IF kind = "timeout" THEN {"request", "json"}
  ELSE IF kind = "aborted" THEN {"json"}
  ELSE {"request"}

\* What the event handler logs before it rejects.
RejectionLog(kind) ==
  IF kind = "timeout" THEN logError(Console, "Request timeout")
  ELSE IF kind = "aborted" THEN Console
  ELSE logError(Console, "Request error")

\* sendToServer rejects for task t and the catch block of
\* sendToServerWithRetry runs: it rethrows, or computes the delay (with
\* Math.random() returning random / RandomGrid) and sets the timer.
SendRejected(t, kind, random) ==
  /\ InFlight(t, RejectionNets(kind))
  /\ Reject(t, IF kind = "timeout" THEN "Request timeout" ELSE kind, RejectionLog(kind))
  /\ probe' = IF retriesExhausted(tasks[t].attempt) THEN probe
              ELSE [probe EXCEPT !.timer[t] =
                      [set |-> now,
                       delay |-> calculateBackoffDelay(tasks[t].attempt, random),
                       by |-> kind]]
  /\ UNCHANGED <<config, running, now, ticks, nread, requestCounter, nrm,
                 sessionId, received>>

\* Mutant: the next attempt does not wait for the timer.
TimerFiresAtOnce(t) == SleepElapsed(t)

\* The timer of sleep(delay) fires once the delay has passed.
TimerFires(t) ==
  /\ DelayScale * (now - probe.timer[t].set) >= probe.timer[t].delay
  /\ SleepElapsed(t)

\* Time passes while a timer is pending.
Advance(d) ==
  /\ running
  /\ ticks < MaxSleepTicks
  /\ \E t \in Tasks : tasks[t].pc = "sleeping"
  /\ ticks' = ticks + 1
  /\ now' = now + d
  /\ UNCHANGED <<config, running, nread, tasks, stdout, stderr, requestCounter,
                 sessionId, received, toolCache, cacheTimestamps, nrm, probe>>

SleepLines == {JsonText(Request(Num(5), Str("tools/call")))}

NextSleep ==
  \/ \E line \in SleepLines : ReadFirstLine(line)
  \/ \E t \in Tasks, header \in EchoSessionHeaders : ResponseHeaders(t, header, FALSE)
  \/ \E t \in Tasks : \E body \in EchoBodies(tasks[t].request) : JsonEnd(t, body)
  \/ \E t \in Tasks, kind \in RejectionKinds, random \in 0..(RandomGrid - 1) :
        SendRejected(t, kind, random)
  \/ \E t \in Tasks : TimerFires(t)
  \/ \E d \in SleepSteps : Advance(d)
  \/ StdinEnd

SleepSpec == InitSleep /\ [][NextSleep]_vars

\* Task t waits for its retry timer.
Suspended(t) == tasks[t].pc = "sleeping"

\* baseDelay * 2^k capped at maxDelay, in ms.
NominalDelay(k) ==
  IF config.baseDelay * 2^k <= config.maxDelay
  THEN config.baseDelay * 2^k ELSE config.maxDelay

\* C32: a rejected attempt k < maxRetries, whatever the kind of rejection,
\* suspends the request with the delay computed from k (the nominal delay
\* of k, within 25% of it with jitter); while it is suspended nothing of
\* the request is on the wire and nothing is dispatched for it; attempt
\* k + 1 is dispatched when the timer fires, not before the delay has
\* passed.
C32_SuspendedBetweenAttempts ==
  /\ [](\A t \in Tasks :
          Suspended(t) =>
             /\ tasks[t].request = Undef
             /\ tasks[t].net = "none"
             /\ tasks[t].attempt < config.maxRetries
             /\ tasks[t].sent = tasks[t].attempt + 1
             /\ IF config.jitter
                THEN /\ 4 * probe.timer[t].delay >= 3 * DelayScale * NominalDelay(tasks[t].attempt)
                     /\ 4 * probe.timer[t].delay <= 5 * DelayScale * NominalDelay(tasks[t].attempt)
                ELSE probe.timer[t].delay = DelayScale * NominalDelay(tasks[t].attempt))
  /\ [][\A t \in Tasks, kind \in RejectionKinds :
          /\ tasks[t].attempt < config.maxRetries
          /\ \E random \in 0..(RandomGrid - 1) : SendRejected(t, kind, random)
          => /\ Suspended(t)'
             /\ tasks'[t].attempt = tasks[t].attempt
             /\ tasks'[t].sent = tasks[t].sent
             /\ probe'.timer[t].set = now
             /\ stdout' = stdout]_vars
  /\ [][\A t \in Tasks :
          Suspended(t) =>
             \/ tasks'[t] = tasks[t]
             \/ ~running'
             \/ /\ tasks'[t].pc = "inflight"
                /\ tasks'[t].net = "request"
                /\ tasks'[t].attempt = tasks[t].attempt + 1
                /\ tasks'[t].sent = tasks[t].sent + 1
                /\ tasks'[t].request # Undef
                /\ DelayScale * (now - probe.timer[t].set) >= probe.timer[t].delay]_vars

\* The second retry of a request is on the wire: attempt 1 timed out, its
\* delay was the capped 1500 ms with jitter added, and the clock has
\* advanced by at least 2000 ms.
C32_Witness ==
  /\ tasks[1].pc = "inflight"
  /\ tasks[1].attempt = 2
  /\ tasks[1].sent = 3
  /\ probe.timer[1].by = "timeout"
  /\ config.jitter
  /\ config.maxDelay = 1500
  /\ probe.timer[1].delay > DelayScale * 1500
  /\ now - StartTime >= 2000

(***************************************************************************)
(* The request counter and the tags of the log.                            *)
(***************************************************************************)
\* The tag [${this.requestCounter}] of an entry that is logged in a step:
\* the template reads the counter when the entry is written.
logTag == requestCounter'

\* JSON.parse accepts the line.
ParsedLines(n) == {u \in 1..n : JSONParses(tasks[u].line)}

\* The value the counter took when line t was read (the line was parsed
\* and the increment was reached).
Assigned(t) ==
  Cardinality({u \in 1..t : JSONParses(tasks[u].line) /\ JSONParse(tasks[u].line) # Null})

\* Task t writes its last tagged entry in this step: "Request completed
\* successfully", "Failed to handle message:" or, for initialize, the
\* outcome of the notification.
LogsLastEntry(t) == tasks[t].pc = "inflight" /\ tasks'[t].pc = "done"

\* C31: the counter never decreases and has grown by one for each line that
\* was parsed, and an entry that a request logs when it completes or fails
\* carries the counter value assigned to that request when it was read.
C31_TaggedWithOwnCounter ==
  /\ [](requestCounter = Cardinality(ParsedLines(nread)))
  /\ [][requestCounter' >= requestCounter]_vars
  /\ [][\A t \in Tasks : LogsLastEntry(t) => logTag = Assigned(t)]_vars

(***************************************************************************)
(* Framing of the input: the 'readable' handler of startMessageLoop on an  *)
(* input that arrives in chunks.  probe holds the input, how much of it    *)
(* has been read and in which chunks, the buffer, and the messages handed  *)
(* to handleIncomingMessage so far.                                        *)
(***************************************************************************)
MaxInput == 5

InputAlphabet == {"a", " ", "\n"}

RECURSIVE InputTexts(_)

\* The texts of at most n characters.
InputTexts(n) ==
  IF n = 0 THEN {""}
  ELSE InputTexts(n - 1) \cup {s \o c : s \in InputTexts(n - 1), c \in InputAlphabet}

RECURSIVE handOver(_, _)

\* for (const line of lines) if (line.trim()) handleIncomingMessage(line.trim()),
\* from lines[i] on: the messages handed over.
handOver(lines, i) ==
  IF i > Len(lines) THEN <<>>
  ELSE (IF Trim(lines[i]) # "" THEN <<Trim(lines[i])>> ELSE <<>>) \o handOver(lines, i + 1)

\* Mutant: each chunk is split on its own.
readableUnbuffered(buffer, chunk) ==
  LET lines == Split(chunk, "\n")
  IN [buffer |-> lines[Len(lines)],
      handled |-> handOver(SubSeq(lines, 1, Len(lines) - 1), 1)]

\* One pass of the loop of the 'readable' handler: buffer += chunk, the
\* buffer is split at the newlines, its last piece is kept and the others
\* are handed over.
readable(buffer, chunk) ==
  LET lines == Split(buffer \o chunk, "\n")
  IN [buffer |-> lines[Len(lines)],
      handled |-> handOver(SubSeq(lines, 1, Len(lines) - 1), 1)]

InitFraming ==
  /\ probe \in {[st |-> "framing", input |-> s, pos |-> 0, chunks |-> <<>>,
                 buffer |-> "", handled |-> <<>>, ended |-> FALSE] :
                s \in InputTexts(MaxInput)}
  /\ config = DefaultConfig(0, FALSE)
  /\ InitState
  /\ stdout = <<>>
  /\ stderr = {}
  /\ nrm = NoNrm

framingFrame ==
  UNCHANGED <<config, running, now, ticks, nread, tasks, stdout, stderr,
              requestCounter, sessionId, received, toolCache, cacheTimestamps, nrm>>

\* process.stdin.read() returns the next n characters of the input.
Readable(n) ==
  /\ ~probe.ended
  /\ probe.pos + n <= Len(probe.input)
  /\ LET chunk == SubSeq(probe.input, probe.pos + 1, probe.pos + n)
         pass == readable(probe.buffer, chunk)
     IN probe' = [probe EXCEPT !.pos = @ + n,
                               !.chunks = Append(@, n),
                               !.buffer = pass.buffer,
                               !.handled = @ \o pass.handled]
  /\ framingFrame

\* 'end' of the input: the process exits with what is left in the buffer.
InputEnd ==
  /\ ~probe.ended
  /\ probe.pos = Len(probe.input)
  /\ probe' = [probe EXCEPT !.ended = TRUE]
  /\ framingFrame

NextFraming ==
  \/ \E n \in 1..MaxInput : Readable(n)
  \/ InputEnd

FramingSpec == InitFraming /\ [][NextFraming]_vars

\* The part of the input read so far.
Consumed == SubSeq(probe.input, 1, probe.pos)

\* The newline-terminated lines of s, in order.
TerminatedLines(s) == SubSeq(Split(s, "\n"), 1, Len(Split(s, "\n")) - 1)

\* What follows the last newline of s.
Fragment(s) == Split(s, "\n")[Len(Split(s, "\n"))]

IsBlank(line) == \A i \in 1..Len(line) : SubSeq(line, i, i) \in WhiteSpace

RECURSIVE NonBlank(_, _)

\* The lines from lines[i] on that are not blank.
NonBlank(lines, i) ==
  IF i > Len(lines) THEN <<>>
  ELSE (IF IsBlank(lines[i]) THEN <<>> ELSE <<lines[i]>>) \o NonBlank(lines, i + 1)

\* C35 as claimed: the messages handed to the handler are the non-blank
\* newline-terminated lines of the input read so far, in order, however the
\* input was split into chunks; the unterminated fragment at its end is in
\* the buffer and has not been handed over.
C35_Claimed ==
  probe.handled = NonBlank(TerminatedLines(Consumed), 1) /\ probe.buffer = Fragment(Consumed)

\* C35 as amended: the messages handed to the handler are the non-blank
\* newline-terminated lines of the input read so far, each without its
\* leading and trailing white space, in order, however the input was split
\* into chunks; the unterminated fragment at its end is in the buffer and
\* has not been handed over.
C35_Framing ==
  /\ Len(probe.handled) = Len(NonBlank(TerminatedLines(Consumed), 1))
  /\ \A i \in 1..Len(probe.handled) :
        /\ probe.handled[i] = Trim(NonBlank(TerminatedLines(Consumed), 1)[i])
        /\ probe.handled[i] # ""
  /\ probe.buffer = Fragment(Consumed)

\* A line that begins with a blank, an empty line and a fragment arrived in
\* three chunks, the line itself in two of them: the line was handed over
\* without the blank, the empty line was skipped, and the fragment is still
\* in the buffer when the input ends.
C35_Witness ==
  /\ probe.input = " a\n\na"
  /\ probe.chunks = <<1, 2, 2>>
  /\ probe.handled = <<"a">>
  /\ probe.buffer = "a"
  /\ probe.ended

(***************************************************************************)
(* The HTTP adapter: POST /mcp.  Each call builds its configuration from   *)
(* its query and the environment, constructs a proxy and forwards its body *)
(* through handleHttpRequest.  probe.calls[c] is call c: its query and     *)
(* body, its proxy, the POST it has on the wire or sent last, and what the *)
(* adapter answered.  heard is the set of session identifiers the          *)
(* responses to this call have carried.                                    *)
(***************************************************************************)
MaxCalls == 2

Calls == 1..MaxCalls

\* "0" .. "9" as numbers.
DigitValue(c) ==
  CASE c = "0" -> 0 [] c = "1" -> 1 [] c = "2" -> 2 [] c = "3" -> 3 [] c = "4" -> 4
    [] c = "5" -> 5 [] c = "6" -> 6 [] c = "7" -> 7 [] c = "8" -> 8 [] c = "9" -> 9

RECURSIVE parseInt(_)

\* parseInt(s, 10) for a string of decimal digits.
parseInt(s) ==
  IF Len(s) = 1 THEN DigitValue(s)
  ELSE 10 * parseInt(SubSeq(s, 1, Len(s) - 1)) + DigitValue(SubSeq(s, Len(s), Len(s)))

QueryKeys == {"LEANTIME_SERVER_URL", "LEANTIME_API_TOKEN", "AUTH_METHOD", "MAX_RETRIES"}

Settings(serverUrl, token, authMethod, maxRetries) ==
  [key \in QueryKeys |->
     CASE key = "LEANTIME_SERVER_URL" -> serverUrl
       [] key = "LEANTIME_API_TOKEN" -> token
       [] key = "AUTH_METHOD" -> authMethod
       [] key = "MAX_RETRIES" -> maxRetries]

\* req.query of a call: everything given, everything given differently,
\* nothing given.
Queries ==
  { Settings(Str("https://a.example/mcp"), Str("token-A"), Undef, Str("1")),
    Settings(Str("https://b.example/mcp"), Str("token-B"), Str("X-API-Key"), Str("0")),
    Settings(Undef, Undef, Undef, Undef) }

\* process.env: with the settings, and without them.
Environments ==
  { Settings(Str("https://env.example/mcp"), Str("token-E"), Str("Token"), Str("1")),
    Settings(Undef, Undef, Undef, Undef) }

\* req.body of a call.
CallBodies == {Request(Num(1), Str("tools/call")), Request(Absent, Str("tools/list"))}

\* extractConfig(queryParams), env being process.env.
extractConfig(queryParams, env) ==
  [serverUrl |-> OrElse(OrElse(queryParams["LEANTIME_SERVER_URL"],
                               env["LEANTIME_SERVER_URL"]), Str("")),
   auth |-> [method |-> OrElse(OrElse(queryParams["AUTH_METHOD"], env["AUTH_METHOD"]),
                               Str("Bearer")),
             token |-> OrElse(OrElse(queryParams["LEANTIME_API_TOKEN"],
                                     env["LEANTIME_API_TOKEN"]), Str(""))],
   maxRetries |-> parseInt(OrElse(OrElse(queryParams["MAX_RETRIES"], env["MAX_RETRIES"]),
                                  Str("3")).s)]

\* The POST that sendToServer(request) of the instance proxy puts on the
\* wire, and where it goes.
proxySendToServer(proxy, request) ==
  LET postData == Stringify(request)
      headers == [key \in {"Content-Type", "Accept", "Content-Length"} |->
                    CASE key = "Content-Type" -> "application/json"
                      [] key = "Accept" -> "application/json, text/event-stream"
                      [] key = "Content-Length" -> ToString(Len(postData))]
      token == proxy.config.auth.token.s
      \* addAuthHeader(headers)
      withAuth ==
        CASE proxy.config.auth.method = Str("X-API-Key") -> MapSet(headers, "X-API-Key", token)
          [] proxy.config.auth.method = Str("ApiKey") ->
               MapSet(headers, "Authorization", "ApiKey " \o token)
          [] proxy.config.auth.method = Str("Token") ->
               MapSet(headers, "Authorization", "Token " \o token)
          [] OTHER -> MapSet(headers, "Authorization", "Bearer " \o token)
  IN [k |-> "POST",
      url |-> proxy.config.serverUrl.s,
      body |-> request,
      headers |-> IF Truthy(proxy.sessionId)
                  THEN MapSet(withAuth, "Mcp-Session-Id", proxy.sessionId.s)
                  ELSE withAuth]

\* extractSessionId on the instance proxy: the instance afterwards.
proxyExtractSessionId(proxy, header) ==
  IF Truthy(header) /\ header.k = "string" /\ proxy.sessionId # header
  THEN [proxy EXCEPT !.sessionId = header]
  ELSE proxy

NoCall ==
  [pc |-> "idle", query |-> Settings(Undef, Undef, Undef, Undef), body |-> Undef,
   proxy |-> Undef, attempt |-> 0, net |-> "none", post |-> Undef, heard |-> {},
   status |-> 0, response |-> Undef]

InitHttp ==
  /\ probe \in {[st |-> "http", env |-> env, calls |-> [c \in Calls |-> NoCall]] :
                env \in Environments}
  /\ config = DefaultConfig(0, FALSE)
  /\ InitState
  /\ stdout = <<>>
  /\ stderr = {}
  /\ nrm = NoNrm

httpFrame ==
  UNCHANGED <<config, running, now, ticks, nread, tasks, stdout, stderr,
              requestCounter, sessionId, received, toolCache, cacheTimestamps, nrm>>

\* res.status(status).json(response)
Answered(call, status, response) ==
  [call EXCEPT !.pc = "done", !.net = "none", !.status = status, !.response = response]

\* The handler of app.post('/mcp') up to its first await: the configuration
\* is extracted and validated, the proxy constructed, and attempt 0 of
\* handleHttpRequest(req.body) dispatched.
PostMcp(c, queryParams, body) ==
  /\ probe.calls[c].pc = "idle"
  /\ LET cfg == extractConfig(queryParams, probe.env)
         call == [probe.calls[c] EXCEPT !.query = queryParams, !.body = body]
         \* new LeantimeMcpProxy(config): the fields of the instance
         proxy == [config |-> cfg, sessionId |-> Undef, requestCounter |-> 0,
                   toolCache |-> NoMap, cacheTimestamps |-> NoMap]
     IN probe' = [probe EXCEPT !.calls[c] =
          IF ~Truthy(cfg.serverUrl) \/ ~Truthy(cfg.auth.token)
          THEN Answered(call, 400,
                 Obj([jsonrpc |-> Str("2.0"),
                      id |-> OrElse(Get(body, "id"), Null),
                      error |-> Obj([code |-> Num(-32602),
                                     message |-> Str("Invalid params: LEANTIME_SERVER_URL and LEANTIME_API_TOKEN are required")])]))
          ELSE [call EXCEPT !.pc = "inflight", !.net = "request", !.proxy = proxy,
                            !.post = proxySendToServer(proxy, body)]]
  /\ httpFrame

\* Mutant: the session identifier is kept in one place for all calls.
McpResponseHeadersShared(c, header) ==
  /\ probe.calls[c].pc = "inflight"
  /\ probe.calls[c].net = "request"
  /\ probe' = [probe EXCEPT !.calls =
                 [d \in Calls |->
                    IF d = c
                    THEN [probe.calls[c] EXCEPT
                            !.net = "json",
                            !.proxy = proxyExtractSessionId(@, header),
                            !.heard = IF Truthy(header) THEN @ \cup {header} ELSE @]
                    ELSE IF probe.calls[d].proxy # Undef
                    THEN [probe.calls[d] EXCEPT !.proxy = proxyExtractSessionId(@, header)]
                    ELSE probe.calls[d]]]
  /\ httpFrame

\* The response callback of the call's proxy: the session identifier goes
\* into that proxy.
McpResponseHeaders(c, header) ==
  /\ probe.calls[c].pc = "inflight"
  /\ probe.calls[c].net = "request"
  /\ probe' = [probe EXCEPT !.calls[c] =
                 [@ EXCEPT !.net = "json",
                           !.proxy = proxyExtractSessionId(@, header),
                           !.heard = IF Truthy(header) THEN @ \cup {header} ELSE @]]
  /\ httpFrame

\* 'end' of the response body: handleHttpRequest returns the (normalized)
\* response and the handler answers with it.
McpResponseEnd(c, body) ==
  /\ probe.calls[c].pc = "inflight"
  /\ probe.calls[c].net = "json"
  /\ probe' = [probe EXCEPT !.calls[c] = Answered(@, 200, handleJSONResponse(body))]
  /\ httpFrame

\* sendToServer rejects: the call retries after a sleep, or handleHttpRequest
\* returns its error envelope.
McpRejected(c, message) ==
  /\ probe.calls[c].pc = "inflight"
  /\ probe' = [probe EXCEPT !.calls[c] =
                 IF @.attempt >= @.proxy.config.maxRetries
                 THEN Answered(@, 200, entryErrorResponse(@.body, message))
                 ELSE [@ EXCEPT !.pc = "sleeping", !.net = "none"]]
  /\ httpFrame

\* The sleep is over: the next attempt is dispatched by the call's proxy.
McpSleepElapsed(c) ==
  /\ probe.calls[c].pc = "sleeping"
  /\ probe' = [probe EXCEPT !.calls[c] =
                 [@ EXCEPT !.pc = "inflight", !.net = "request", !.attempt = @ + 1,
                           !.post = proxySendToServer(probe.calls[c].proxy,
                                                      probe.calls[c].body)]]
  /\ httpFrame

McpSessionHeaders == {Undef, Str("sess-A"), Str("sess-B")}

NextHttp ==
  \/ \E c \in Calls, queryParams \in Queries, body \in CallBodies : PostMcp(c, queryParams, body)
  \/ \E c \in Calls, header \in McpSessionHeaders : McpResponseHeaders(c, header)
  \/ \E c \in Calls : \E body \in EchoBodies(probe.calls[c].post) : McpResponseEnd(c, body)
  \/ \E c \in Calls, message \in TransportErrors : McpRejected(c, message)
  \/ \E c \in Calls : McpSleepElapsed(c)

HttpSpec == InitHttp /\ [][NextHttp]_vars

\* The value of the header that carries the credentials of a POST.
Credentials(post) ==
  IF "X-API-Key" \in DOMAIN post.headers THEN post.headers["X-API-Key"]
  ELSE post.headers["Authorization"]

\* C33: each call of the HTTP adapter is served by a proxy of its own.  The
\* configuration is the one extracted from the call's own query (and the
\* environment); the POST goes to the call's own server with the call's own
\* body and credentials, and carries a session identifier only on a retry
\* and only one that a response to this same call has carried; the cache of
\* the proxy stays empty; the answer is made from the reply to the call's
\* own POST or from its own failure.
C33_CallsIsolated ==
  \A c \in Calls :
     LET call == probe.calls[c]
         cfg == extractConfig(call.query, probe.env)
     IN /\ call.pc # "idle" /\ call.status = 400 =>
              /\ call.proxy = Undef
              /\ call.post = Undef
              /\ Get(call.response, "id") = OrElse(Get(call.body, "id"), Null)
        /\ call.pc # "idle" /\ call.status # 400 =>
              /\ call.proxy.config = cfg
              /\ call.proxy.toolCache = NoMap
              /\ call.proxy.cacheTimestamps = NoMap
              /\ IF call.heard = {} THEN call.proxy.sessionId = Undef
                 ELSE call.proxy.sessionId \in call.heard
              /\ call.post.url = cfg.serverUrl.s
              /\ call.post.body = call.body
              /\ Credentials(call.post) \in
                    {prefix \o cfg.auth.token.s : prefix \in {"", "ApiKey ", "Token ", "Bearer "}}
              /\ "Mcp-Session-Id" \in DOMAIN call.post.headers =>
                    /\ call.attempt >= 1
                    /\ Str(call.post.headers["Mcp-Session-Id"]) \in call.heard
              /\ call.pc = "done" =>
                    call.response \in
                       {handleJSONResponse(body) : body \in EchoBodies(call.post)} \cup
                       {entryErrorResponse(call.body, message) : message \in TransportErrors}

\* Two calls are in flight at the same time, each on its first retry: the
\* first with the server and token of its query and the session identifier it was
\* given, the second with the settings of the environment and the other
\* session identifier.
C33_Witness ==
  /\ \A c \in Calls :
        /\ probe.calls[c].pc = "inflight"
        /\ probe.calls[c].attempt = 1
        /\ {"Authorization", "Mcp-Session-Id"} \subseteq DOMAIN probe.calls[c].post.headers
  /\ probe.calls[1].post.url = "https://a.example/mcp"
  /\ probe.calls[1].post.headers["Authorization"] = "Token token-A"
  /\ probe.calls[1].post.headers["Mcp-Session-Id"] = "sess-A"
  /\ probe.calls[2].post.url = "https://env.example/mcp"
  /\ probe.calls[2].post.headers["Authorization"] = "Token token-E"
  /\ probe.calls[2].post.headers["Mcp-Session-Id"] = "sess-B"

(***************************************************************************)
(* The protocol server (createServer): tool operations that go through     *)
(* ensureLeantimeSession and proxyRequest.  probe.wire is the sequence of  *)
(* requests handed to proxyRequest, each with the operation that sent it   *)
(* and the value leantimeSessionInitialized had at that moment.            *)
(***************************************************************************)
MaxOperations == 2

Operations == 1..MaxOperations

ToolMethods == {"tools/list", "tools/call"}

\* What proxyRequest returns: an envelope with a result, or one with an
\* error (the server's, the normalizer's, or the one made for a failure).
ProxyOutcomes == {"result", "error"}

NoOperation == [pc |-> "idle", method |-> "none", returned |-> "none"]

InitServer ==
  /\ probe = [st |-> "server", leantimeSessionInitialized |-> FALSE,
              ops |-> [o \in Operations |-> NoOperation], wire |-> <<>>]
  /\ config = DefaultConfig(0, FALSE)
  /\ InitState
  /\ stdout = <<>>
  /\ stderr = {}
  /\ nrm = NoNrm

serverFrame ==
  UNCHANGED <<config, running, now, ticks, nread, tasks, stdout, stderr,
              requestCounter, sessionId, received, toolCache, cacheTimestamps, nrm>>

\* proxy.proxyRequest(request) is called by operation o.
proxyRequest(wire, o, method) ==
  Append(wire, [op |-> o, method |-> method,
                initialized |-> probe.leantimeSessionInitialized])

\* A handler is invoked and runs to its first pending await:
\* ensureLeantimeSession sends initialize if the flag is not set; with the
\* flag set the handler sends its own request.
ToolOperation(o, method) ==
  /\ probe.ops[o].pc = "idle"
  /\ probe' = IF probe.leantimeSessionInitialized
              THEN [probe EXCEPT !.ops[o] = [@ EXCEPT !.pc = "forward", !.method = method],
                                 !.wire = proxyRequest(@, o, method)]
              ELSE [probe EXCEPT !.ops[o] = [@ EXCEPT !.pc = "initialize", !.method = method],
                                 !.wire = proxyRequest(@, o, "initialize")]
  /\ serverFrame

\* proxyRequest(initRequest) returned: on an error ensureLeantimeSession
\* logs and returns, and the handler sends its request; otherwise the
\* notification is sent.
InitializeReturned(o, outcome) ==
  /\ probe.ops[o].pc = "initialize"
  /\ probe' = IF outcome = "error"
              THEN [probe EXCEPT !.ops[o].pc = "forward",
                                 !.wire = proxyRequest(@, o, probe.ops[o].method)]
              ELSE [probe EXCEPT !.ops[o].pc = "initialized",
                                 !.wire = proxyRequest(@, o, "notifications/initialized")]
  /\ serverFrame

\* proxyRequest(initializedNotification) returned, with whatever outcome:
\* the flag is set and the handler sends its request.
InitializedReturned(o, outcome) ==
  /\ probe.ops[o].pc = "initialized"
  /\ probe' = [probe EXCEPT !.leantimeSessionInitialized = TRUE,
                            !.ops[o].pc = "forward",
                            !.wire = Append(@, [op |-> o, method |-> probe.ops[o].method,
                                                initialized |-> TRUE])]
  /\ serverFrame

\* The handler's own request returned: ListTools answers with the tools or
\* with an empty list, CallTool with the content or with an McpError.
ToolReturned(o, outcome) ==
  /\ probe.ops[o].pc = "forward"
  /\ probe' = [probe EXCEPT !.ops[o].pc = "done",
                            !.ops[o].returned =
                               IF outcome = "result" THEN "result"
                               ELSE IF probe.ops[o].method = "tools/list" THEN "empty"
                               ELSE "McpError"]
  /\ serverFrame

NextServer ==
  \/ \E o \in Operations, method \in ToolMethods : ToolOperation(o, method)
  \/ \E o \in Operations, outcome \in ProxyOutcomes : InitializeReturned(o, outcome)
  \/ \E o \in Operations, outcome \in ProxyOutcomes : InitializedReturned(o, outcome)
  \/ \E o \in Operations, outcome \in ProxyOutcomes : ToolReturned(o, outcome)

ServerSpec == InitServer /\ [][NextServer]_vars

\* The positions of the wire at which method was sent.
SentAt(method) == {i \in DOMAIN probe.wire : probe.wire[i].method = method}

\* C34: initialize and notifications/initialized are sent once per server
\* lifetime, the notification after initialize, and no tools/list or
\* tools/call request is sent before the handshake has completed.
C34_HandshakeOnce ==
  /\ Cardinality(SentAt("initialize")) <= 1
  /\ Cardinality(SentAt("notifications/initialized")) <= 1
  /\ \A i \in SentAt("notifications/initialized") :
        \E j \in SentAt("initialize") : j < i
  /\ \A method \in ToolMethods : \A i \in SentAt(method) : probe.wire[i].initialized
====
